---- MODULE Spec2Model ----
(***************************************************************************)
(* Model of nestfit's per-pixel model selection (CubeFitter.fit), the      *)
(* process fan-out / fan-in of CubeFitter.fit_cube, the chunked HDF store  *)
(* (HdfStore) and the passes of postprocess_run: aggregate_run_attributes  *)
(* and convolve_evidence with the arrays they compute, the later passes    *)
(* with the datasets they look up and create.                              *)
(* Line numbers in comments refer to src/nestfit/main.py unless noted.     *)
(***************************************************************************)
EXTENDS Integers, Sequences, FiniteSets, TLC

(* ------------------------------ bounds -------------------------------- *)
\* largest number of grid rows along the strided (longitude) axis
MaxLon == 2
\* largest number of grid columns (latitude axis)
MaxLat == 2
\* largest size of a run: n_lon * n_lat * (ncomp_max + 1), the number of
\* evidences (null model included) the run can compute
MaxWork == 6
\* largest number of chunk files / worker processes
MaxChunks == 2
\* largest value of ncomp_max
MaxComp == 2
\* largest number of pixels whose spectrum holds a NaN or Inf sample
MaxBad == 1

(* --------------------------- program values --------------------------- *)
\* CubeFitter.__init__ default lnZ_thresh=11 (line 376)
lnZ_thresh == 11
\* np.full(..., -1): the "no pixel group" value of the nbest map (line 497)
Unfit == -1
\* a log-evidence for which np.isfinite is False (lines 413, 416)
NonFinite == 999
\* an attribute that has not been written to a group
NoAttr == -999

\* log-evidences the sampler may report; differences below, at and above
\* lnZ_thresh all occur (5-0, 11-0, 22-11, 22-0, 11-22, ...)
LnZVals == {5, 11, 22}
\* null-model evidence of a spectrum without NaN
NullVals == {0}
\* kinds of spectra: all samples finite, a NaN sample, a +/-Inf sample
Kinds == {"finite", "nan", "inf"}

isfinite_Always(v) == TRUE
isfinite(v) == v # NonFinite

(* ----------------------- DataCube.get_spec_data ----------------------- *)
\* has_nans = np.isnan(arr).any(): True for NaN only, an Inf sample is not NaN
isnan_any_Never(kind) == FALSE
isnan_any(kind) == kind = "nan"

\* CubeStack.get_spec_data: any_nans |= has_nans over the cubes; the stack is
\* modelled by the kind of its worst spectrum. CubeFitter.fit reads the flag
\* through stack.get_spectra (core.py, lines 243-250), which ORs the same test.
has_nans(kind) == isnan_any(kind)

(* ------------------------ get_multiproc_indices ----------------------- *)
\* number of rows selected by the slice i::nproc of an axis of length n
SliceLen_NoStride(i, nproc, n) == IF i >= n THEN 0 ELSE n - i
SliceLen(i, nproc, n) == IF i >= n THEN 0 ELSE (n - i + nproc - 1) \div nproc

\* lon_ix[i::nproc,...].flatten(), lat_ix[i::nproc,...].flatten() zipped:
\* rows i, i+nproc, ... of the grid in C order, as <<i_lon, i_lat>> pairs
StridedChunk_Contiguous(shape, nproc, i) ==
    LET n_lon == shape[1]
        n_lat == shape[2]
        rows  == SliceLen(i, nproc, n_lon)
    IN  [j \in 1..(rows * n_lat) |->
            << i + ((j - 1) \div n_lat), (j - 1) % n_lat >>]
StridedChunk(shape, nproc, i) ==
    LET n_lon == shape[1]
        n_lat == shape[2]
        rows  == SliceLen(i, nproc, n_lon)
    IN  [j \in 1..(rows * n_lat) |->
            << i + ((j - 1) \div n_lat) * nproc, (j - 1) % n_lat >>]

\* indices = [ ... for i in range(nproc)], stored 1-based: indices[i+1]
get_multiproc_indices(shape, nproc) ==
    [c \in 1..nproc |-> StridedChunk(shape, nproc, c - 1)]

Grid(shape) == (0..(shape[1] - 1)) \X (0..(shape[2] - 1))
SeqRange(s) == {s[j] : j \in DOMAIN s}

(* ------------------------------- state -------------------------------- *)
VARIABLES
    shape,      \* stack.spatial_shape = <<n_lon, n_lat>>
    nchunks,    \* store.nchunks (nproc of fit_cube)
    ncomp_max,  \* CubeFitter.ncomp_max
    data,       \* kind of the spectrum at each pixel
    chains,     \* sampler results fixed per pixel (empty: any result)
    indices,    \* result of get_multiproc_indices (<<>> before it is called)
    main_pc,    \* position of the main process in fit_cube
    k,          \* loop counter of the main process (start / join / link loops)
    wpc,        \* position of each worker in CubeFitter.fit
    wi,         \* worker: 1-based position in its (all_lon, all_lat) sequence
    wncomp,     \* worker local ncomp
    wnbest,     \* worker local nbest
    wold,       \* worker local old_lnZ
    chunk,      \* the chunk files: exists, and the groups under /pix
    ncalls,     \* number of run_multinest invocations per pixel
    links,      \* table file: external links /pix/<lon>/<lat> -> chunk
    dsets,      \* table file: datasets under /products
    agg_pc,     \* position of the aggregation pass
    call,       \* last create_dataset call and its outcome
    nstarted,   \* number of proc.start() calls per worker process
    plog        \* the passes of postprocess_run so far: reads and writes

vars == << shape, nchunks, ncomp_max, data, chains, indices, main_pc, k, wpc,
           wi, wncomp, wnbest, wold, chunk, ncalls, links, dsets, agg_pc, call,
           nstarted, plog >>

Chunks == 0..(nchunks - 1)
Pixels == Grid(shape)

\* a pixel group /pix/<lon>/<lat> right after hdf.require_group (line 400)
NewGroup_WithNbest == [subs |-> << >>, null_lnZ |-> NoAttr, nbest |-> 0]
NewGroup == [subs |-> << >>, null_lnZ |-> NoAttr, nbest |-> NoAttr]
\* an h5py.File opened in mode 'a' on a path that did not exist (line 392)
NewFile == [exists |-> TRUE, pix |-> << >>]
NoFile == [exists |-> FALSE, pix |-> << >>]
\* no create_dataset call has been observed yet
NoData == 0
NoCall == [name |-> "", data |-> NoData, clobber |-> FALSE, old |-> NoData,
           warned |-> FALSE, outcome |-> "none"]

\* the pixel the worker is at: (i_lon, i_lat) of zip(all_lon, all_lat)
CurPix(c) == indices[c + 1][wi[c]]

\* runner.null_lnZ for the spectrum at p (line 412)
NullOut(p) ==
    IF p \in DOMAIN chains THEN {chains[p][1]} ELSE NullVals \cup {NonFinite}
\* runner.run_lnZ after run_multinest for ncomp = n (line 415)
SamplerOut(p, n) ==
    IF p \in DOMAIN chains THEN {chains[p][n + 1]} ELSE LnZVals \cup {NonFinite}

\* the stopping test of line 417
Rejected_Inclusive(run_lnZ, old_lnZ) == run_lnZ - old_lnZ <= lnZ_thresh
Rejected(run_lnZ, old_lnZ) == run_lnZ - old_lnZ < lnZ_thresh

\* old_lnZ = runner.run_lnZ (line 420)
NextOld_Stale(run_lnZ, old_lnZ) == old_lnZ
NextOld(run_lnZ, old_lnZ) == run_lnZ

\* nbest = ncomp (line 421)
NextBest_Lag(ncomp) == ncomp - 1
NextBest(ncomp) == ncomp

(* ---------------------------- CubeFitter.fit -------------------------- *)
\* HdfStore.chunk_paths (lines 277-282): chunk<i>.hdf for i in range(nchunks),
\* a file being named by its number; fit_cube hands chunk_paths[i] to the
\* process of indices[i] (lines 436, 443)
chunk_paths_Same(i) == 0
chunk_paths(i) == i

\* if store.nchunks == 1 (line 435): fit is called in the main process
RunInline_Never(nc) == FALSE
RunInline(nc) == nc = 1

\* an uncaught exception in fit: with nchunks = 1 fit runs in the main
\* process (line 436) and the exception leaves fit_cube as well
MainAfterCrash_FailFast == "failed"
MainAfterCrash == IF RunInline(nchunks) THEN "failed" ELSE main_pc

\* h5py.File(path, 'a'): read/write if the file exists, create otherwise;
\* mode 'w' would truncate an existing file
File_w(f) == NewFile
File_a(f) == IF f.exists THEN f ELSE NewFile

\* hdf = h5py.File(chunk_path, 'a')  (line 392)
FitOpen(c) ==
    /\ wpc[c] = "open"
    /\ chunk' = [chunk EXCEPT ![chunk_paths(c)] = File_a(@)]
    /\ wpc' = [wpc EXCEPT ![c] = "loop"]
    /\ wi' = [wi EXCEPT ![c] = 1]
    /\ UNCHANGED << shape, nchunks, ncomp_max, data, chains, indices, main_pc,
                    k, wncomp, wnbest, wold, ncalls, links, dsets, agg_pc, call,
                    nstarted, plog >>

\* one pass of "for (i_lon, i_lat) in zip(all_lon, all_lat)" up to the while
\* loop (lines 393-404), or hdf.close() when the sequence is exhausted (426)
FitNextPixel(c) ==
    /\ wpc[c] = "loop"
    /\ IF wi[c] > Len(indices[c + 1])
       THEN /\ wpc' = [wpc EXCEPT ![c] = "done"]
            /\ UNCHANGED << wi, wncomp, wnbest, chunk >>
       ELSE LET p == CurPix(c) IN
            IF has_nans(data[p])
            THEN \* SKIP: continue
                 /\ wi' = [wi EXCEPT ![c] = @ + 1]
                 /\ UNCHANGED << wpc, wncomp, wnbest, chunk >>
            ELSE /\ chunk' = [chunk EXCEPT ![chunk_paths(c)].pix =
                                 IF p \in DOMAIN @ THEN @ ELSE @ @@ (p :> NewGroup)]
                 /\ wncomp' = [wncomp EXCEPT ![c] = 1]
                 /\ wnbest' = [wnbest EXCEPT ![c] = 0]
                 /\ wpc' = [wpc EXCEPT ![c] = "while"]
                 /\ UNCHANGED wi
    /\ UNCHANGED << shape, nchunks, ncomp_max, data, chains, indices, main_pc,
                    k, wold, ncalls, links, dsets, agg_pc, call,
                    nstarted, plog >>

\* while ncomp <= self.ncomp_max  (line 405)
while_cond_Extra(n) == n <= ncomp_max + 1
while_cond(n) == n <= ncomp_max

\* one evaluation of "while ncomp <= self.ncomp_max" and its body
\* (lines 405-422): create the sub-group, run the sampler, which dumps its
\* result into the sub-group, then apply the stopping test
FitWhile(c) ==
    /\ wpc[c] = "while"
    /\ LET p == CurPix(c)
           g == chunk[chunk_paths(c)].pix[p]
           n == wncomp[c]
       IN
       IF ~while_cond(n)
       THEN /\ wpc' = [wpc EXCEPT ![c] = "attrs"]
            /\ UNCHANGED << main_pc, wncomp, wnbest, wold, chunk, ncalls >>
       ELSE IF Len(g.subs) >= n
       THEN \* group.create_group raises: the name already exists
            /\ wpc' = [wpc EXCEPT ![c] = "crashed"]
            /\ main_pc' = MainAfterCrash
            /\ UNCHANGED << wncomp, wnbest, wold, chunk, ncalls >>
       ELSE \E null \in (IF n = 1 THEN NullOut(p) ELSE {NoAttr}),
               v \in SamplerOut(p, n) :
            LET old == IF n = 1 THEN null ELSE wold[c] IN
            IF n = 1 /\ ~isfinite(null)
            THEN \* assert np.isfinite(old_lnZ) fails; sub-group 1 is empty
                 /\ chunk' = [chunk EXCEPT ![chunk_paths(c)].pix[p].subs = Append(@, NoAttr)]
                 /\ wpc' = [wpc EXCEPT ![c] = "crashed"]
                 /\ main_pc' = MainAfterCrash
                 /\ UNCHANGED << wncomp, wnbest, wold, ncalls >>
            ELSE /\ chunk' = [chunk EXCEPT
                        ![chunk_paths(c)].pix[p].subs = Append(@, v),
                        ![chunk_paths(c)].pix[p].null_lnZ = IF n = 1 THEN null ELSE @]
                 /\ ncalls' = [ncalls EXCEPT ![p] = @ + 1]
                 /\ IF ~isfinite(v)
                    THEN \* assert np.isfinite(runner.run_lnZ) fails
                         /\ wpc' = [wpc EXCEPT ![c] = "crashed"]
                         /\ main_pc' = MainAfterCrash
                         /\ UNCHANGED << wncomp, wnbest, wold >>
                    ELSE IF Rejected(v, old)
                    THEN \* break
                         /\ wpc' = [wpc EXCEPT ![c] = "attrs"]
                         /\ wold' = [wold EXCEPT ![c] = old]
                         /\ UNCHANGED << main_pc, wncomp, wnbest >>
                    ELSE /\ wold' = [wold EXCEPT ![c] = NextOld(v, old)]
                         /\ wnbest' = [wnbest EXCEPT ![c] = NextBest(n)]
                         /\ wncomp' = [wncomp EXCEPT ![c] = n + 1]
                         /\ UNCHANGED << main_pc, wpc >>
    /\ UNCHANGED << shape, nchunks, ncomp_max, data, chains, indices, k, wi,
                    links, dsets, agg_pc, call,
                    nstarted, plog >>

\* group.attrs['i_lon'], ['i_lat'], ['nbest'] (lines 423-425), then the next
\* pixel; the locals are dead until line 403 sets them again
FitAttrs(c) ==
    /\ wpc[c] = "attrs"
    /\ chunk' = [chunk EXCEPT ![chunk_paths(c)].pix[CurPix(c)].nbest = wnbest[c]]
    /\ wi' = [wi EXCEPT ![c] = @ + 1]
    /\ wpc' = [wpc EXCEPT ![c] = "loop"]
    /\ wncomp' = [wncomp EXCEPT ![c] = 0]
    /\ wnbest' = [wnbest EXCEPT ![c] = 0]
    /\ wold' = [wold EXCEPT ![c] = 0]
    /\ UNCHANGED << shape, nchunks, ncomp_max, data, chains, indices, main_pc,
                    k, ncalls, links, dsets, agg_pc, call,
                    nstarted, plog >>

(* --------------------------- HdfStore (table) ------------------------- *)
\* the pixels of S as a sequence, in the order h5py iterates group members:
\* by lon_pix, then by lat_pix
RECURSIVE InOrder(_)
InOrder(S) ==
    IF S = {} THEN << >>
    ELSE LET first == CHOOSE p \in S : \A q \in S :
                          \/ p[1] < q[1]
                          \/ (p[1] = q[1] /\ p[2] <= q[2])
         IN  << first >> \o InOrder(S \ {first})

\* for chunk_path in self.chunk_paths: one chunk of link_files (lines 313-320).
\* The result is the links of the table file after the chunk, and whether an
\* exception left the loop: chunk_hdf['/pix'] raises KeyError when the chunk
\* holds no group, and self.hdf[group_name] = group raises when the name is
\* already linked.
RECURSIVE LinkWalk(_, _, _)
LinkWalk(todo, c, lk) ==
    IF todo = << >> THEN [ok |-> TRUE, links |-> lk]
    ELSE IF Head(todo) \in DOMAIN lk THEN [ok |-> FALSE, links |-> lk]
    ELSE LinkWalk(Tail(todo), c, lk @@ (Head(todo) :> c))

link_chunk_SkipEmpty(c, lk) ==
    IF ~chunk[c].exists \/ DOMAIN chunk[c].pix = {}
    THEN [ok |-> TRUE, links |-> lk]
    ELSE LinkWalk(InOrder(DOMAIN chunk[c].pix), c, lk)
link_chunk_FirstOnly(c, lk) ==
    IF ~chunk[c].exists \/ DOMAIN chunk[c].pix = {}
    THEN [ok |-> FALSE, links |-> lk]
    ELSE LinkWalk(<< Head(InOrder(DOMAIN chunk[c].pix)) >>, c, lk)
link_chunk(c, lk) ==
    IF ~chunk[c].exists \/ DOMAIN chunk[c].pix = {}
    THEN [ok |-> FALSE, links |-> lk]
    ELSE LinkWalk(InOrder(DOMAIN chunk[c].pix), c, lk)

\* self.hdf[f'/pix/{lon_pix}/{lat_pix}'] through an external link: h5py
\* raises KeyError when the file or the group the link names is missing
Resolves(p) ==
    /\ chunk[links[p]].exists
    /\ p \in DOMAIN chunk[links[p]].pix

\* iter_pix_groups (lines 298-309): the groups yielded, in order, and whether
\* the traversal ended normally. self.hdf['/pix'] raises KeyError when the
\* table holds no link at all.
RECURSIVE IterWalk_Skip(_, _)
IterWalk_Skip(todo, acc) ==
    IF todo = << >> THEN [ok |-> TRUE, yield |-> acc]
    ELSE IF ~Resolves(Head(todo)) THEN IterWalk_Skip(Tail(todo), acc)
    ELSE IterWalk_Skip(Tail(todo), Append(acc, Head(todo)))
RECURSIVE IterWalk(_, _)
IterWalk(todo, acc) ==
    IF todo = << >> THEN [ok |-> TRUE, yield |-> acc]
    ELSE IF ~Resolves(Head(todo)) THEN [ok |-> FALSE, yield |-> acc]
    ELSE IterWalk(Tail(todo), Append(acc, Head(todo)))

iter_step_Skip(todo, acc) == IterWalk_Skip(todo, acc)
iter_step(todo, acc) == IterWalk(todo, acc)

iter_pix_groups ==
    IF DOMAIN links = {} THEN [ok |-> FALSE, yield |-> << >>]
    ELSE iter_step(InOrder(DOMAIN links), << >>)

\* create_dataset (lines 352-359): the datasets afterwards, whether the call
\* returned (h5py's create_dataset raises when the name exists), and whether
\* the RuntimeWarning of line 357 was issued
create_dataset_NoClobber(ds, dset_name, d, clobber) ==
    IF dset_name \in DOMAIN ds
    THEN [ok |-> FALSE, dsets |-> ds, warned |-> FALSE]
    ELSE [ok |-> TRUE, dsets |-> ds @@ (dset_name :> d), warned |-> FALSE]
create_dataset(ds, dset_name, d, clobber) ==
    LET existed == dset_name \in DOMAIN ds
        \* del self.hdf[path]
        kept == IF existed /\ clobber
                THEN [n \in DOMAIN ds \ {dset_name} |-> ds[n]]
                ELSE ds
    IN  IF dset_name \in DOMAIN kept
        THEN [ok |-> FALSE, dsets |-> ds, warned |-> FALSE]
        ELSE [ok |-> TRUE, dsets |-> kept @@ (dset_name :> d),
              warned |-> existed /\ clobber]

(* ------------------------- CubeFitter.fit_cube ------------------------ *)
\* lines 429-436: create the store, compute the index lists; with one chunk
\* fit is called in the main process
FitCubeSetup ==
    /\ main_pc = "init"
    /\ indices' = get_multiproc_indices(shape, nchunks)
    /\ k' = 0
    /\ IF RunInline(nchunks)
       THEN /\ main_pc' = "inline"
            /\ wpc' = [wpc EXCEPT ![0] = "open"]
       ELSE /\ main_pc' = "start"
            /\ UNCHANGED wpc
    /\ UNCHANGED << shape, nchunks, ncomp_max, data, chains, wi, wncomp,
                    wnbest, wold, chunk, ncalls, links, dsets, agg_pc,
                    call,
                    nstarted, plog >>

\* self.fit(indices[0], store.chunk_paths[0]) has returned (line 436)
FitInlineReturn ==
    /\ main_pc = "inline"
    /\ wpc[0] = "done"
    /\ main_pc' = "link"
    /\ k' = 0
    /\ UNCHANGED << shape, nchunks, ncomp_max, data, chains, indices, wpc, wi,
                    wncomp, wnbest, wold, chunk, ncalls, links, dsets, agg_pc, call,
                    nstarted, plog >>

\* for proc in procs: proc.start()  (lines 448-449)
ProcStart ==
    /\ main_pc = "start"
    /\ wpc' = [wpc EXCEPT ![k] = "open"]
    /\ nstarted' = [nstarted EXCEPT ![k] = @ + 1]
    /\ IF k + 1 = nchunks
       THEN main_pc' = "join" /\ k' = 0
       ELSE main_pc' = "start" /\ k' = k + 1
    /\ UNCHANGED << shape, nchunks, ncomp_max, data, chains, indices, wi,
                    wncomp, wnbest, wold, chunk, ncalls, links, dsets, agg_pc, call,
                    plog >>

\* proc.join() returns once the process has exited, whatever its status
Joinable_NoWait(c) == TRUE
Joinable(c) == wpc[c] \in {"done", "crashed"}

\* for proc in procs: proc.join()  (lines 450-451)
ProcJoin ==
    /\ main_pc = "join"
    /\ Joinable(k)
    /\ IF k + 1 = nchunks
       THEN main_pc' = "link" /\ k' = 0
       ELSE main_pc' = "join" /\ k' = k + 1
    /\ UNCHANGED << shape, nchunks, ncomp_max, data, chains, indices, wpc, wi,
                    wncomp, wnbest, wold, chunk, ncalls, links, dsets, agg_pc, call,
                    nstarted, plog >>

\* store.link_files(): one chunk_path of its loop (lines 313-320)
LinkFile ==
    /\ main_pc = "link"
    /\ LET r == link_chunk(chunk_paths(k), links) IN
       /\ links' = r.links
       /\ IF ~r.ok THEN main_pc' = "failed" /\ k' = k
          ELSE IF k + 1 = nchunks THEN main_pc' = "close" /\ k' = 0
          ELSE main_pc' = "link" /\ k' = k + 1
    /\ UNCHANGED << shape, nchunks, ncomp_max, data, chains, indices, wpc, wi,
                    wncomp, wnbest, wold, chunk, ncalls, dsets, agg_pc,
                    call,
                    nstarted, plog >>

\* store.close() and the return of fit_cube (line 454)
StoreClose ==
    /\ main_pc = "close"
    /\ main_pc' = "done"
    /\ UNCHANGED << shape, nchunks, ncomp_max, data, chains, indices, k, wpc,
                    wi, wncomp, wnbest, wold, chunk, ncalls, links, dsets,
                    agg_pc, call,
                    nstarted, plog >>

(* ---------------------------- postprocess_run ------------------------- *)
\* the passes in the order postprocess_run calls them (lines 850-857), named
\* by the value agg_pc takes when the pass has returned
postprocess_run_ConvFirst ==
    << "conv", "attrs", "products", "pdfs", "conv_pdfs", "quantiles",
       "deblend" >>
postprocess_run ==
    << "attrs", "conv", "products", "pdfs", "conv_pdfs", "quantiles",
       "deblend" >>

\* the value of agg_pc at which pass ps is called: the pass before it has
\* returned, or postprocess_run has just been entered
PassBefore(ps) ==
    LET i == CHOOSE j \in DOMAIN postprocess_run : postprocess_run[j] = ps
    IN  IF i = 1 THEN "none" ELSE postprocess_run[i - 1]

\* one pass as plog keeps it: the product datasets it looked up under
\* /products, the ones it created, and whether it returned
PassEntry(ps, rd, wr, ok) ==
    [pass |-> ps, reads |-> rd, writes |-> wr, ok |-> ok]

(* ---------------------- aggregate_run_attributes ---------------------- *)
\* the pixel group a link of the table file leads to
GroupOf(p) == chunk[links[p]].pix[p]

\* nb_data after the loop of lines 498-502, indexed [i_lon][i_lat] (1-based)
nb_data_ZeroFill(yield) ==
    [i \in 1..shape[1] |-> [j \in 1..shape[2] |->
        IF << i - 1, j - 1 >> \in SeqRange(yield)
        THEN GroupOf(<< i - 1, j - 1 >>).nbest
        ELSE 0]]
nb_data(yield) ==
    [i \in 1..shape[1] |-> [j \in 1..shape[2] |->
        IF << i - 1, j - 1 >> \in SeqRange(yield)
        THEN GroupOf(<< i - 1, j - 1 >>).nbest
        ELSE Unfit]]

\* lnz_data after the loop of lines 503-511, indexed [i_lon][i_lat][model];
\* model m is stored at index m + 1 and NaN is written as NonFinite
lnz_data(yield) ==
    [i \in 1..shape[1] |-> [j \in 1..shape[2] |-> [m \in 1..(ncomp_max + 1) |->
        LET p == << i - 1, j - 1 >> IN
        IF p \notin SeqRange(yield) THEN NonFinite
        ELSE IF m = 1
             THEN (IF Len(GroupOf(p).subs) >= 1
                   THEN GroupOf(p).null_lnZ ELSE NonFinite)
             ELSE (IF Len(GroupOf(p).subs) >= m - 1
                   THEN GroupOf(p).subs[m - 1] ELSE NonFinite)]]]

\* ndarray.transpose() of a 2-D and of a 3-D array: the axes reversed
transpose2_Identity(a) == a
transpose2(a) ==
    IF Len(a) = 0 THEN << >>
    ELSE [j \in 1..Len(a[1]) |-> [i \in 1..Len(a) |-> a[i][j]]]
transpose3(a) ==
    IF Len(a) = 0 \/ Len(a[1]) = 0 THEN << >>
    ELSE [m \in 1..Len(a[1][1]) |-> [j \in 1..Len(a[1]) |->
             [i \in 1..Len(a) |-> a[i][j][m]]]]

\* a group of the traversal that makes the loop body raise KeyError: the
\* attribute nbest (line 501) or the attributes of a sub-group are missing
Unreadable(p) ==
    \/ GroupOf(p).nbest = NoAttr
    \/ \E n \in DOMAIN GroupOf(p).subs : GroupOf(p).subs[n] = NoAttr

\* aggregate_run_attributes (lines 467-523) on the store fit_cube returned.
\* Of the six datasets it writes, nbest and evidence are modelled; the other
\* four are filled and written exactly like evidence.
AggregateRunAttributes ==
    /\ main_pc = "done"
    /\ agg_pc = PassBefore("attrs")
    /\ LET it == iter_pix_groups IN
       IF ~it.ok \/ \E p \in SeqRange(it.yield) : Unreadable(p)
       THEN /\ agg_pc' = "failed"
            /\ plog' = Append(plog, PassEntry("attrs", {}, {}, FALSE))
            /\ UNCHANGED << dsets, call >>
       ELSE LET r1 == create_dataset(dsets, "nbest",
                                     transpose2(nb_data(it.yield)), TRUE)
                r2 == create_dataset(r1.dsets, "evidence",
                                     transpose3(lnz_data(it.yield)), TRUE)
            IN  /\ dsets' = r2.dsets
                /\ agg_pc' = "attrs"
                /\ plog' = Append(plog, PassEntry("attrs", {},
                                                  {"nbest", "evidence"}, TRUE))
                /\ UNCHANGED call
    /\ UNCHANGED << shape, nchunks, ncomp_max, data, chains, indices, main_pc,
                    k, wpc, wi, wncomp, wnbest, wold, chunk, ncalls, links,
                    nstarted >>

\* the failure iter_pix_groups guards against (lines 301-305): one chunk file
\* is lost between linking and aggregation, its links then lead nowhere
ChunkLost(c) ==
    /\ main_pc = "done"
    /\ agg_pc = "none"
    /\ \A c2 \in Chunks : chunk[c2].exists
    /\ chunk' = [chunk EXCEPT ![c] = NoFile]
    /\ UNCHANGED << shape, nchunks, ncomp_max, data, chains, indices, main_pc,
                    k, wpc, wi, wncomp, wnbest, wold, ncalls, links, dsets,
                    agg_pc, call,
                    nstarted, plog >>

(* --------------------------- convolve_evidence ------------------------ *)
\* values of a convolved evidence map: differences below, at and above
\* lnZ_thresh all occur (11-0, 23-11, 35-23, 0-11, ...), and NaN
SmoothVals == {0, 11, 23, 35, NonFinite}

\* convolution.convolve_fft of each model's map (lines 551-553): an array of
\* the shape of data; its values depend on the kernel width std_pix, on the
\* neighbours of a pixel and on the NaN interpolation, and are left open
convolve_fft(ev) ==
    IF Len(ev) = 0 \/ Len(ev[1]) = 0 THEN {ev}
    ELSE [DOMAIN ev -> [DOMAIN ev[1] -> [DOMAIN ev[1][1] -> SmoothVals]]]

\* cdata[i+1] - cdata[i] > lnZ_thresh on floats (line 561): a comparison
\* with NaN is False
step_passes(hi, lo) == isfinite(hi) /\ isfinite(lo) /\ hi - lo > lnZ_thresh

\* the loop of lines 556-562 at one pixel [b][l]: conv_nbest goes from i to
\* i + 1 only where it equals i and the step i -> i+1 passes
RECURSIVE StepWalk(_, _, _, _, _)
StepWalk(cdata, b, l, i, nb) ==
    IF i >= ncomp_max THEN nb
    ELSE StepWalk(cdata, b, l, i + 1,
                  IF nb = i /\ step_passes(cdata[i + 2][b][l], cdata[i + 1][b][l])
                  THEN nb + 1 ELSE nb)

\* conv_nbest[nbest == -1] = -1  (line 564)
refill_None(cn, nb) == cn
refill(cn, nb) == IF nb = Unfit THEN Unfit ELSE cn

\* overshot = conv_nbest - nbest >= 2;
\* conv_nbest[overshot] = nbest[overshot] + 1  (lines 568-569)
clamp_None(cn, nb) == cn
clamp(cn, nb) == IF cn - nb >= 2 THEN nb + 1 ELSE cn

\* conv_nbest of main.py (lines 555-569), dimensions (b, l) like nbest
conv_nbest(cdata, nbest) ==
    [b \in DOMAIN nbest |-> [l \in DOMAIN nbest[b] |->
        clamp(refill(StepWalk(cdata, b, l, 0, 0), nbest[b][l]),
              nbest[b][l])]]

\* core.py, lines 580-582: nbest[lnZ_thresh < cdata[i+1] - cdata[i]] = i+1
\* for i in range(ncomp_max), every i assigning wherever its step passes
RECURSIVE CoreWalk(_, _, _, _, _)
CoreWalk(cdata, b, l, i, nb) ==
    IF i >= ncomp_max THEN nb
    ELSE CoreWalk(cdata, b, l, i + 1,
                  IF step_passes(cdata[i + 2][b][l], cdata[i + 1][b][l])
                  THEN i + 1 ELSE nb)

\* the smoothed order of core.py, of the shape of cdata[0]
core_conv_nbest(cdata) ==
    [b \in DOMAIN cdata[1] |-> [l \in DOMAIN cdata[1][b] |->
        CoreWalk(cdata, b, l, 0, 0)]]

\* convolve_evidence of main.py (lines 526-573): hdf[...] raises KeyError on
\* a dataset that does not exist
ConvolveEvidence ==
    /\ agg_pc = PassBefore("conv")
    /\ IF "evidence" \notin DOMAIN dsets
       THEN /\ agg_pc' = "failed"
            /\ plog' = Append(plog, PassEntry("conv", {"evidence"}, {}, FALSE))
            /\ UNCHANGED dsets
       ELSE IF "nbest" \notin DOMAIN dsets
       THEN /\ agg_pc' = "failed"
            /\ plog' = Append(plog, PassEntry("conv", {"evidence", "nbest"},
                                              {}, FALSE))
            /\ UNCHANGED dsets
       ELSE \E cdata \in convolve_fft(dsets["evidence"]) :
            LET r1 == create_dataset(dsets, "conv_nbest",
                                     conv_nbest(cdata, dsets["nbest"]), TRUE)
                r2 == create_dataset(r1.dsets, "conv_evidence", cdata, TRUE)
            IN  /\ dsets' = r2.dsets
                /\ agg_pc' = "conv"
                /\ plog' = Append(plog, PassEntry("conv", {"evidence", "nbest"},
                                     {"conv_nbest", "conv_evidence"}, TRUE))
    /\ UNCHANGED << shape, nchunks, ncomp_max, data, chains, indices, main_pc,
                    k, wpc, wi, wncomp, wnbest, wold, chunk, ncalls, links,
                    call, nstarted >>

\* convolve_evidence of core.py (lines 554-584)
CoreConvolveEvidence ==
    /\ agg_pc = PassBefore("conv")
    /\ IF "evidence" \notin DOMAIN dsets
       THEN /\ agg_pc' = "failed"
            /\ plog' = Append(plog, PassEntry("core_conv", {"evidence"}, {},
                                              FALSE))
            /\ UNCHANGED dsets
       ELSE \E cdata \in convolve_fft(dsets["evidence"]) :
            LET r1 == create_dataset(dsets, "conv_evidence", cdata, TRUE)
                r2 == create_dataset(r1.dsets, "conv_nbest",
                                     core_conv_nbest(cdata), TRUE)
            IN  /\ dsets' = r2.dsets
                /\ agg_pc' = "conv"
                /\ plog' = Append(plog, PassEntry("core_conv", {"evidence"},
                                     {"conv_nbest", "conv_evidence"}, TRUE))
    /\ UNCHANGED << shape, nchunks, ncomp_max, data, chains, indices, main_pc,
                    k, wpc, wi, wncomp, wnbest, wold, chunk, ncalls, links,
                    call, nstarted >>

(* ------------------ the later passes of postprocess_run --------------- *)
\* the content of a product of the passes after convolve_evidence
Opaque == "array"

\* hdf[f'{dpath}/{name}'] for the names in order: the names looked up, and
\* whether all of them exist (KeyError at the first that does not)
RECURSIVE Lookups(_, _)
Lookups(names, ds) ==
    IF names = << >> THEN [ok |-> TRUE, reads |-> {}]
    ELSE IF Head(names) \notin DOMAIN ds
         THEN [ok |-> FALSE, reads |-> {Head(names)}]
    ELSE LET r == Lookups(Tail(names), ds)
         IN  [ok |-> r.ok, reads |-> {Head(names)} \cup r.reads]

\* a product whose content is not followed, under each of the names
Arrays(names) == [i \in DOMAIN names |-> [name |-> names[i], data |-> Opaque]]

\* store.create_dataset(name, data, group=dpath) for the products in order
RECURSIVE Creates(_, _)
Creates(writes, ds) ==
    IF writes = << >> THEN ds
    ELSE Creates(Tail(writes),
                 create_dataset(ds, Head(writes).name, Head(writes).data,
                                TRUE).dsets)

\* test_group = hdf[f'pix/{n_lon//2}/{n_lat//2}/1'] and its attributes
\* (lines 597-599, 657-658): KeyError when the pixel has no fitted order 1
TestPix == << shape[1] \div 2, shape[2] \div 2 >>
TestGroupOk ==
    /\ TestPix \in DOMAIN links
    /\ Resolves(TestPix)
    /\ Len(GroupOf(TestPix).subs) >= 1
    /\ GroupOf(TestPix).subs[1] # NoAttr

\* the loop over iter_pix_groups of lines 609-625 and 677-691: nbest is read
\* from conv_nbest at the group's (i_lon, i_lat); a pixel of order 0 is
\* passed over, any other order is looked up as group[f'{nbest}']
ProductLoopOk(cn) ==
    LET it == iter_pix_groups IN
    /\ it.ok
    /\ \A p \in SeqRange(it.yield) :
          /\ GroupOf(p).nbest # NoAttr
          /\ LET c == cn[p[2] + 1][p[1] + 1] IN
             \/ c = 0
             \/ (c \in 1..Len(GroupOf(p).subs) /\ GroupOf(p).subs[c] # NoAttr)

\* nbest = nbest_data[i_lon,i_lat] of the loop body (lines 612, 680), with
\* nbest_data = conv_nbest.transpose() (lines 594, 656)
order_used_Raw(cn, p) == GroupOf(p).nbest
order_used(cn, p) == transpose2(cn)[p[1] + 1][p[2] + 1]

\* nb_group['map_params'] and nb_group['marginals'] of the order-n fit of
\* pixel p (lines 619, 624), one value for each of the n components; the
\* values the sampler stored are told apart by pixel, order and component
map_params(p, n) ==
    [j \in 1..n |-> 10000 + ((p[1] * 10 + p[2]) * 10 + n) * 10 + j]
marginals(p, n) ==
    [j \in 1..n |-> 20000 + ((p[1] * 10 + p[2]) * 10 + n) * 10 + j]

\* mapdata and pardata after the loop of lines 609-625, indexed
\* [i_lon][i_lat][model] (one parameter, one quantile): NaN from nans(),
\* the slots :nbest of a yielded pixel overwritten from its order-nbest fit
mapdata(cn, yield) ==
    [i \in 1..shape[1] |-> [j \in 1..shape[2] |-> [m \in 1..ncomp_max |->
        LET p == << i - 1, j - 1 >> IN
        IF p \in SeqRange(yield) /\ m <= order_used(cn, p)
        THEN map_params(p, order_used(cn, p))[m]
        ELSE NonFinite]]]
pardata(cn, yield) ==
    [i \in 1..shape[1] |-> [j \in 1..shape[2] |-> [m \in 1..ncomp_max |->
        LET p == << i - 1, j - 1 >> IN
        IF p \in SeqRange(yield) /\ m <= order_used(cn, p)
        THEN marginals(p, order_used(cn, p))[m]
        ELSE NonFinite]]]

\* a value of np.histogram(..., density=True) (line 687)
Density == 1

\* histdata after the loop of lines 677-691, indexed [i_lon][i_lat][model]
\* (one parameter, one bin): NaN from nans(), a density in the slots
\* range(nbest) of a yielded pixel
histdata(cn, yield) ==
    [i \in 1..shape[1] |-> [j \in 1..shape[2] |-> [m \in 1..ncomp_max |->
        LET p == << i - 1, j - 1 >> IN
        IF p \in SeqRange(yield) /\ m <= order_used(cn, p)
        THEN Density ELSE NonFinite]]]

\* the end of a pass: it raised, or it created its datasets and returned
PassEnd(ps, rd, ok, writes) ==
    IF ok
    THEN /\ dsets' = Creates(writes, dsets)
         /\ agg_pc' = ps
         /\ plog' = Append(plog, PassEntry(ps, rd,
                               {writes[i].name : i \in DOMAIN writes}, TRUE))
    ELSE /\ dsets' = dsets
         /\ agg_pc' = "failed"
         /\ plog' = Append(plog, PassEntry(ps, rd, {}, FALSE))

\* aggregate_run_products (lines 576-631)
AggregateRunProducts ==
    /\ agg_pc = PassBefore("products")
    /\ LET r == Lookups(<< "conv_nbest" >>, dsets)
           ok == r.ok /\ TestGroupOk /\ ProductLoopOk(dsets["conv_nbest"])
           y == iter_pix_groups.yield
       IN  PassEnd("products", r.reads, ok,
                   IF ~ok THEN << >>
                   ELSE << [name |-> "marg_quantiles", data |-> Opaque],
                           [name |-> "nbest_MAP",
                            data |-> transpose3(mapdata(dsets["conv_nbest"], y))],
                           [name |-> "nbest_marginals",
                            data |-> transpose3(pardata(dsets["conv_nbest"],
                                                        y))] >>)
    /\ UNCHANGED << shape, nchunks, ncomp_max, data, chains, indices, main_pc,
                    k, wpc, wi, wncomp, wnbest, wold, chunk, ncalls, links,
                    call, nstarted >>

\* aggregate_run_pdfs (lines 634-697): nbest_marginals is read only when no
\* par_bins were given (lines 660-671)
AggregateRunPdfs(given) ==
    /\ agg_pc = PassBefore("pdfs")
    /\ LET r1 == Lookups(<< "conv_nbest" >>, dsets)
           r2 == IF r1.ok /\ TestGroupOk /\ ~given
                 THEN Lookups(<< "nbest_marginals" >>, dsets)
                 ELSE [ok |-> TRUE, reads |-> {}]
           ok == /\ r1.ok /\ TestGroupOk /\ r2.ok
                 /\ ProductLoopOk(dsets["conv_nbest"])
       IN  PassEnd("pdfs", r1.reads \cup r2.reads, ok,
                   IF ~ok THEN << >>
                   ELSE << [name |-> "pdf_bins", data |-> Opaque],
                           [name |-> "post_pdfs",
                            data |-> transpose3(histdata(dsets["conv_nbest"],
                                          iter_pix_groups.yield))] >>)
    /\ UNCHANGED << shape, nchunks, ncomp_max, data, chains, indices, main_pc,
                    k, wpc, wi, wncomp, wnbest, wold, chunk, ncalls, links,
                    call, nstarted >>

\* a pass that works on product datasets only
DatasetPass(ps, reads, writes) ==
    /\ agg_pc = PassBefore(ps)
    /\ LET r == Lookups(reads, dsets) IN PassEnd(ps, r.reads, r.ok, writes)
    /\ UNCHANGED << shape, nchunks, ncomp_max, data, chains, indices, main_pc,
                    k, wpc, wi, wncomp, wnbest, wold, chunk, ncalls, links,
                    call, nstarted >>

\* values of a convolved density map: zero, a density, and NaN where the
\* convolution found nothing to interpolate from
PdfVals == {0, Density, NonFinite}

\* convolution.convolve_fft of each (model, parameter, bin) map (lines
\* 731-732): an array of the shape of data, its values left open
convolve_fft_pdf(d) ==
    IF Len(d) = 0 \/ Len(d[1]) = 0 THEN {d}
    ELSE [DOMAIN d -> [DOMAIN d[1] -> [DOMAIN d[1][1] -> PdfVals]]]

\* cdata[np.isnan(data)] = np.nan  (line 734), dimensions (m, b, l)
remask_None(d, cdata) == cdata
remask(d, cdata) ==
    [m \in DOMAIN d |-> [b \in DOMAIN d[m] |-> [l \in DOMAIN d[m][b] |->
        IF d[m][b][l] = NonFinite THEN NonFinite ELSE cdata[m][b][l]]]]

\* convolve_post_pdfs of main.py (lines 700-735): every (model, parameter,
\* bin) map is convolved, then the NaN positions of post_pdfs are re-masked
ConvolvePostPdfs ==
    /\ agg_pc = PassBefore("conv_pdfs")
    /\ LET r == Lookups(<< "post_pdfs" >>, dsets) IN
       IF ~r.ok THEN PassEnd("conv_pdfs", r.reads, FALSE, << >>)
       ELSE \E cdata \in convolve_fft_pdf(dsets["post_pdfs"]) :
            PassEnd("conv_pdfs", r.reads, TRUE,
                    << [name |-> "conv_post_pdfs",
                        data |-> remask(dsets["post_pdfs"], cdata)] >>)
    /\ UNCHANGED << shape, nchunks, ncomp_max, data, chains, indices, main_pc,
                    k, wpc, wi, wncomp, wnbest, wold, chunk, ncalls, links,
                    call, nstarted >>

\* convolve_post_hists of core.py (lines 701-731): the convolved maps are
\* stored as convolve_fft returned them
CoreConvolvePostHists ==
    /\ agg_pc = PassBefore("conv_pdfs")
    /\ IF "post_pdfs" \notin DOMAIN dsets
       THEN /\ agg_pc' = "failed"
            /\ plog' = Append(plog, PassEntry("core_conv_pdfs", {"post_pdfs"},
                                              {}, FALSE))
            /\ UNCHANGED dsets
       ELSE \E cdata \in convolve_fft_pdf(dsets["post_pdfs"]) :
            /\ dsets' = create_dataset(dsets, "conv_post_pdfs", cdata,
                                       TRUE).dsets
            /\ agg_pc' = "conv_pdfs"
            /\ plog' = Append(plog, PassEntry("core_conv_pdfs", {"post_pdfs"},
                                              {"conv_post_pdfs"}, TRUE))
    /\ UNCHANGED << shape, nchunks, ncomp_max, data, chains, indices, main_pc,
                    k, wpc, wi, wncomp, wnbest, wold, chunk, ncalls, links,
                    call, nstarted >>

\* quantize_conv_marginals (lines 738-778)
QuantizeConvMarginals ==
    DatasetPass("quantiles",
                << "pdf_bins", "marg_quantiles", "conv_post_pdfs" >>,
                Arrays(<< "conv_marginals" >>))

\* deblend_hf_intensity (lines 781-847)
DeblendHfIntensity ==
    DatasetPass("deblend", << "pdf_bins", "nbest_MAP" >>,
                Arrays(<< "peak_intensity", "integrated_intensity",
                          "hf_deblended" >>))

\* postprocess_run is called again on the store, after it returned or raised
PostprocessAgain ==
    /\ agg_pc \in {postprocess_run[Len(postprocess_run)], "failed"}
    /\ agg_pc' = "none"
    /\ plog' = << >>
    /\ UNCHANGED << shape, nchunks, ncomp_max, data, chains, indices, main_pc,
                    k, wpc, wi, wncomp, wnbest, wold, chunk, ncalls, links,
                    dsets, call, nstarted >>

(* ---------------------------- specification --------------------------- *)
Shapes == (1..MaxLon) \X (1..MaxLat)

\* the state before fit_cube is called on a fresh store
InitRun(sh, nc, nm, d, ch) ==
    /\ shape = sh
    /\ nchunks = nc
    /\ ncomp_max = nm
    /\ data = d
    /\ chains = ch
    /\ indices = << >>
    /\ main_pc = "init"
    /\ k = 0
    /\ wpc = [c \in 0..(nc - 1) |-> "idle"]
    /\ wi = [c \in 0..(nc - 1) |-> 0]
    /\ wncomp = [c \in 0..(nc - 1) |-> 0]
    /\ wnbest = [c \in 0..(nc - 1) |-> 0]
    /\ wold = [c \in 0..(nc - 1) |-> 0]
    /\ chunk = [c \in 0..(nc - 1) |-> NoFile]
    /\ ncalls = [p \in Grid(sh) |-> 0]
    /\ links = << >>
    /\ dsets = << >>
    /\ agg_pc = "none"
    /\ call = NoCall
    /\ nstarted = [c \in 0..(nc - 1) |-> 0]
    /\ plog = << >>

Init ==
    \E sh \in Shapes, nc \in 1..MaxChunks, nm \in 0..MaxComp :
    \E d \in [Grid(sh) -> Kinds] :
        /\ sh[1] * sh[2] * (nm + 1) <= MaxWork
        /\ Cardinality({p \in Grid(sh) : d[p] # "finite"}) <= MaxBad
        /\ InitRun(sh, nc, nm, d, << >>)

Next ==
    \/ FitCubeSetup
    \/ FitInlineReturn
    \/ ProcStart
    \/ ProcJoin
    \/ LinkFile
    \/ StoreClose
    \/ AggregateRunAttributes
    \/ \E c \in Chunks : FitOpen(c)
    \/ \E c \in Chunks : FitNextPixel(c)
    \/ \E c \in Chunks : FitWhile(c)
    \/ \E c \in Chunks : FitAttrs(c)
    \/ \E c \in Chunks : ChunkLost(c)

Spec == Init /\ [][Next]_vars

\* the worker processes are scheduled by the operating system and the
\* sampler returns: a worker inside the while loop takes its next step
FairWorkers ==
    \A c \in 0..(MaxChunks - 1) : WF_vars(c \in Chunks /\ FitWhile(c))

\* largest size of a run that is checked for the progress of its workers
LiveMaxWork == 4

InitLive ==
    \E sh \in Shapes, nc \in 1..MaxChunks, nm \in 0..MaxComp :
    \E d \in [Grid(sh) -> Kinds] :
        /\ sh[1] * sh[2] * (nm + 1) <= LiveMaxWork
        /\ Cardinality({p \in Grid(sh) : d[p] # "finite"}) <= MaxBad
        /\ InitRun(sh, nc, nm, d, << >>)

SpecFair == InitLive /\ [][Next]_vars /\ FairWorkers

(* ------------------- the end-to-end scenario (2 x 2) ------------------ *)
\* the map (latitude, longitude) is laid out as [[A, B], [C, D]]:
\* A = (lon 0, lat 0), B = (lon 1, lat 0), C = (lon 0, lat 1), D = (lon 1, lat 1)
PixA == << 0, 0 >>
PixB == << 1, 0 >>
PixC == << 0, 1 >>
PixD == << 1, 1 >>
E2EChains ==
    (PixA :> << 0, 15, 40 >>) @@ (PixB :> << 0, 5 >>) @@
    (PixC :> << 0 >>) @@ (PixD :> << 0, 20, 25 >>)
E2EData ==
    (PixA :> "finite") @@ (PixB :> "finite") @@
    (PixC :> "nan") @@ (PixD :> "finite")

InitE2E ==
    \E nc \in 1..MaxChunks :
        InitRun(<< 2, 2 >>, nc, 2, E2EData, E2EChains)

SpecE2E == InitE2E /\ [][Next]_vars

(* --------------- get_multiproc_indices on its own inputs -------------- *)
\* bounds of the shapes and chunk counts the function is applied to
IdxMaxLon == 4
IdxMaxLat == 2
IdxMaxProc == 4

InitIdx ==
    \E sh \in (1..IdxMaxLon) \X (1..IdxMaxLat), nc \in 1..IdxMaxProc :
        /\ InitRun(sh, nc, 0, [p \in Grid(sh) |-> "finite"], << >>)

\* one element of the list comprehension of lines 460-463
IdxChunk ==
    /\ main_pc = "init"
    /\ Len(indices) < nchunks
    /\ indices' = Append(indices, StridedChunk(shape, nchunks, Len(indices)))
    /\ UNCHANGED << shape, nchunks, ncomp_max, data, chains, main_pc, k, wpc,
                    wi, wncomp, wnbest, wold, chunk, ncalls, links, dsets,
                    agg_pc, call,
                    nstarted, plog >>

NextIdx == IdxChunk

SpecIdx == InitIdx /\ [][NextIdx]_vars

(* ---------------- HdfStore.create_dataset on its own inputs ------------ *)
DSNames == {"nbest", "evidence"}
DSData == {1, 2, 3}

InitDS ==
    InitRun(<< 1, 1 >>, 1, 0, [p \in Grid(<< 1, 1 >>) |-> "finite"], << >>)

\* a call store.create_dataset(dset_name, d, group=dpath, clobber=clobber)
DoCreateDataset(dset_name, d, clobber) ==
    /\ LET r == create_dataset(dsets, dset_name, d, clobber) IN
       /\ dsets' = r.dsets
       /\ call' = [name |-> dset_name, data |-> d, clobber |-> clobber,
                   old |-> IF dset_name \in DOMAIN dsets
                           THEN dsets[dset_name] ELSE NoData,
                   warned |-> r.warned,
                   outcome |-> IF r.ok THEN "created" ELSE "error"]
    /\ UNCHANGED << shape, nchunks, ncomp_max, data, chains, indices, main_pc,
                    k, wpc, wi, wncomp, wnbest, wold, chunk, ncalls, links,
                    agg_pc,
                    nstarted, plog >>

NextDS ==
    \E dset_name \in DSNames, d \in DSData, clobber \in BOOLEAN :
        DoCreateDataset(dset_name, d, clobber)

SpecDS == InitDS /\ [][NextDS]_vars

(* ----------------- convolve_evidence on its own inputs ---------------- *)
\* largest number of evidence values, n_lon * n_lat * (ncomp_max + 1), of a
\* store convolve_evidence is applied to
ConvMaxCells == 4

\* the evidence product pass 1 writes for a store whose pixels carry the
\* orders nb (dimensions (b, l)): NaN at a pixel without a group, a chain
\* that gains lnZ_thresh up to the pixel's nbest, then one rejected order
RawEvidence(nb, nm) ==
    [m \in 1..(nm + 1) |-> [b \in DOMAIN nb |-> [l \in DOMAIN nb[b] |->
        IF nb[b][l] = Unfit \/ m - 1 > nb[b][l] + 1 THEN NonFinite
        ELSE IF m - 1 <= nb[b][l] THEN (m - 1) * lnZ_thresh
        ELSE nb[b][l] * lnZ_thresh + 5]]]

\* a store after pass 1, for every map of raw orders
InitConv ==
    \E sh \in Shapes, nm \in 0..MaxComp :
    \E nb \in [1..sh[2] -> [1..sh[1] -> (Unfit..nm)]] :
        /\ sh[1] * sh[2] * (nm + 1) <= ConvMaxCells
        /\ shape = sh
        /\ nchunks = 1
        /\ ncomp_max = nm
        /\ data = [p \in Grid(sh) |-> "finite"]
        /\ chains = << >>
        /\ indices = << >>
        /\ main_pc = "done"
        /\ k = 0
        /\ wpc = [c \in {0} |-> "done"]
        /\ wi = [c \in {0} |-> 0]
        /\ wncomp = [c \in {0} |-> 0]
        /\ wnbest = [c \in {0} |-> 0]
        /\ wold = [c \in {0} |-> 0]
        /\ chunk = [c \in {0} |-> NoFile]
        /\ ncalls = [p \in Grid(sh) |-> 0]
        /\ links = << >>
        /\ dsets = ("nbest" :> nb) @@ ("evidence" :> RawEvidence(nb, nm))
        /\ agg_pc = "attrs"
        /\ call = NoCall
        /\ nstarted = [c \in {0} |-> 0]
        /\ plog = << PassEntry("attrs", {}, {"nbest", "evidence"}, TRUE) >>

NextConv ==
    \/ ConvolveEvidence
    \/ CoreConvolveEvidence

SpecConv == InitConv /\ [][NextConv]_vars

(* ---------------- fit_cube followed by postprocess_run ---------------- *)
\* largest size of a run that is post-processed: n_lon * n_lat * (ncomp_max+1)
PostMaxWork == 2

InitPost ==
    \E sh \in Shapes, nc \in 1..MaxChunks, nm \in 0..MaxComp :
    \E d \in [Grid(sh) -> Kinds] :
        /\ sh[1] * sh[2] * (nm + 1) <= PostMaxWork
        /\ Cardinality({p \in Grid(sh) : d[p] # "finite"}) <= MaxBad
        /\ InitRun(sh, nc, nm, d, << >>)

NextPost ==
    \/ Next
    \/ ConvolveEvidence
    \/ AggregateRunProducts
    \/ \E given \in BOOLEAN : AggregateRunPdfs(given)
    \/ ConvolvePostPdfs
    \/ QuantizeConvMarginals
    \/ DeblendHfIntensity
    \/ PostprocessAgain

SpecPost == InitPost /\ [][NextPost]_vars

(* ------------------- fit_cube called again on a store ----------------- *)
\* largest size of a run that is fitted again, and the number of fit_cube
\* calls on one store
RefitMaxWork == 4
MaxSweeps == 2

\* fit_cube is called on the store of an earlier call (lines 428-432): the
\* HdfStore opens the table file and finds the chunk files of that call
FitCubeAgain ==
    /\ main_pc \in {"done", "failed"}
    /\ agg_pc = "none"
    /\ \A c \in Chunks : wpc[c] \in {"idle", "done", "crashed"}
    /\ \A c \in Chunks : nstarted[c] < MaxSweeps
    /\ main_pc' = "init"
    /\ k' = 0
    /\ wpc' = [c \in Chunks |-> "idle"]
    /\ wi' = [c \in Chunks |-> 0]
    /\ wncomp' = [c \in Chunks |-> 0]
    /\ wnbest' = [c \in Chunks |-> 0]
    /\ wold' = [c \in Chunks |-> 0]
    /\ UNCHANGED << shape, nchunks, ncomp_max, data, chains, indices, chunk,
                    ncalls, links, dsets, agg_pc, call, nstarted, plog >>

InitRefit ==
    \E sh \in Shapes, nc \in 1..MaxChunks, nm \in 0..MaxComp :
    \E d \in [Grid(sh) -> Kinds] :
        /\ sh[1] * sh[2] * (nm + 1) <= RefitMaxWork
        /\ Cardinality({p \in Grid(sh) : d[p] # "finite"}) <= MaxBad
        /\ InitRun(sh, nc, nm, d, << >>)

NextRefit ==
    \/ FitCubeSetup
    \/ FitInlineReturn
    \/ ProcStart
    \/ ProcJoin
    \/ LinkFile
    \/ StoreClose
    \/ AggregateRunAttributes
    \/ FitCubeAgain
    \/ \E c \in Chunks : FitOpen(c)
    \/ \E c \in Chunks : FitNextPixel(c)
    \/ \E c \in Chunks : FitWhile(c)
    \/ \E c \in Chunks : FitAttrs(c)

SpecRefit == InitRefit /\ [][NextRefit]_vars

(* ---------------- fit_cube with the sampler results fixed ------------- *)
\* largest size of a run whose sampler results are fixed beforehand
DetMaxWork == 4

\* the lines 403-425 for one pixel as a function of the sampler results
\* chains[p]: the group a sweep leaves for p when nothing interrupts it
RECURSIVE fit_pixel_walk(_, _, _, _)
fit_pixel_walk(p, n, old, g) ==
    IF n > ncomp_max THEN g
    ELSE LET v == chains[p][n + 1]
             g2 == [g EXCEPT !.subs = Append(@, v)]
         IN  IF Rejected(v, old) THEN g2
             ELSE fit_pixel_walk(p, n + 1, NextOld(v, old),
                                 [g2 EXCEPT !.nbest = NextBest(n)])
fit_pixel(p) ==
    fit_pixel_walk(p, 1, chains[p][1],
                   [subs |-> << >>,
                    null_lnZ |-> IF ncomp_max >= 1 THEN chains[p][1] ELSE NoAttr,
                    nbest |-> 0])

\* the sampler results of one pixel: a finite null evidence, then a finite
\* evidence for each order 1..nm
ChainsOf(nm) ==
    {<< z >> \o t : z \in NullVals, t \in [1..nm -> LnZVals]}

\* every grid, chunk count and spectrum kind, with the sampler results of
\* every pixel fixed
InitDet ==
    \E sh \in Shapes, nc \in 1..MaxChunks, nm \in 0..MaxComp :
        /\ sh[1] * sh[2] * (nm + 1) <= DetMaxWork
        /\ \E d \in [Grid(sh) -> Kinds] :
              /\ Cardinality({p \in Grid(sh) : d[p] # "finite"}) <= MaxBad
              /\ \E ch \in [Grid(sh) -> ChainsOf(nm)] :
                    InitRun(sh, nc, nm, d, ch)

\* the steps of fit_cube and of its workers
NextDet ==
    \/ FitCubeSetup
    \/ FitInlineReturn
    \/ ProcStart
    \/ ProcJoin
    \/ LinkFile
    \/ StoreClose
    \/ \E c \in Chunks : FitOpen(c)
    \/ \E c \in Chunks : FitNextPixel(c)
    \/ \E c \in Chunks : FitWhile(c)
    \/ \E c \in Chunks : FitAttrs(c)

SpecDet == InitDet /\ [][NextDet]_vars

(* ------------- fit_cube followed by the passes 1 to 4, once ----------- *)
\* largest size of a run whose passes 1 to 4 are followed
LookupMaxWork == 3

InitLookup ==
    \E sh \in Shapes, nc \in 1..MaxChunks, nm \in 0..MaxComp :
    \E d \in [Grid(sh) -> Kinds] :
        /\ sh[1] * sh[2] * (nm + 1) <= LookupMaxWork
        /\ Cardinality({p \in Grid(sh) : d[p] # "finite"}) <= MaxBad
        /\ InitRun(sh, nc, nm, d, << >>)

NextLookup ==
    \/ NextDet
    \/ AggregateRunAttributes
    \/ ConvolveEvidence
    \/ AggregateRunProducts
    \/ \E given \in BOOLEAN : AggregateRunPdfs(given)

SpecLookup == InitLookup /\ [][NextLookup]_vars

(* ---------------- fit_cube with workers that can be killed ------------ *)
\* largest size of a run whose workers can be killed
CrashMaxWork == 4

\* the process running fit (lines 392-426) ends at any point, without an
\* exception of its own: nothing more is written; inside the loop body the
\* sub-group of the current order may already exist, without its results
WorkerKilled(c) ==
    /\ wpc[c] \in {"open", "loop", "while", "attrs"}
    /\ wpc' = [wpc EXCEPT ![c] = "crashed"]
    /\ main_pc' = MainAfterCrash
    /\ \/ UNCHANGED chunk
       \/ /\ wpc[c] = "while"
          /\ while_cond(wncomp[c])
          /\ Len(chunk[chunk_paths(c)].pix[CurPix(c)].subs) < wncomp[c]
          /\ chunk' = [chunk EXCEPT
                 ![chunk_paths(c)].pix[CurPix(c)].subs = Append(@, NoAttr)]
    /\ UNCHANGED << shape, nchunks, ncomp_max, data, chains, indices, k, wi,
                    wncomp, wnbest, wold, ncalls, links, dsets, agg_pc, call,
                    nstarted, plog >>

InitCrash ==
    \E sh \in Shapes, nc \in 1..MaxChunks, nm \in 0..MaxComp :
    \E d \in [Grid(sh) -> Kinds] :
        /\ sh[1] * sh[2] * (nm + 1) <= CrashMaxWork
        /\ Cardinality({p \in Grid(sh) : d[p] # "finite"}) <= MaxBad
        /\ InitRun(sh, nc, nm, d, << >>)

NextCrash ==
    \/ NextDet
    \/ \E c \in Chunks : WorkerKilled(c)

SpecCrash == InitCrash /\ [][NextCrash]_vars

(* ---------------- convolve_post_pdfs on its own inputs ---------------- *)
\* largest number of densities, n_lon * n_lat * ncomp_max, of a store the
\* histogram smoothing is applied to
PdfMaxCells == 3

\* a store after the passes ps, holding the products ds
InitAfter(sh, nm, ds, ps) ==
    /\ shape = sh
    /\ nchunks = 1
    /\ ncomp_max = nm
    /\ data = [p \in Grid(sh) |-> "finite"]
    /\ chains = << >>
    /\ indices = << >>
    /\ main_pc = "done"
    /\ k = 0
    /\ wpc = [c \in {0} |-> "done"]
    /\ wi = [c \in {0} |-> 0]
    /\ wncomp = [c \in {0} |-> 0]
    /\ wnbest = [c \in {0} |-> 0]
    /\ wold = [c \in {0} |-> 0]
    /\ chunk = [c \in {0} |-> NoFile]
    /\ ncalls = [p \in Grid(sh) |-> 0]
    /\ links = << >>
    /\ dsets = ds
    /\ agg_pc = ps[Len(ps)]
    /\ call = NoCall
    /\ nstarted = [c \in {0} |-> 0]
    /\ plog = [i \in DOMAIN ps |-> PassEntry(ps[i], {}, {}, TRUE)]

\* a store after pass 4, for every map cn of smoothed orders (dimensions
\* (b, l)): post_pdfs holds a density in the slots below a pixel's order
InitPdf ==
    \E sh \in Shapes, nm \in 1..MaxComp :
    \E cn \in [1..sh[2] -> [1..sh[1] -> (0..nm)]] :
        /\ sh[1] * sh[2] * nm <= PdfMaxCells
        /\ InitAfter(sh, nm,
                     ("conv_nbest" :> cn) @@ ("pdf_bins" :> Opaque) @@
                     ("post_pdfs" :>
                        [m \in 1..nm |-> [b \in 1..sh[2] |-> [l \in 1..sh[1] |->
                            IF m <= cn[b][l] THEN Density ELSE NonFinite]]]),
                     << "attrs", "conv", "products", "pdfs" >>)

NextPdf ==
    \/ ConvolvePostPdfs
    \/ CoreConvolvePostHists

SpecPdf == InitPdf /\ [][NextPdf]_vars

(* ------------------------------- claims ------------------------------- *)
\* every pixel group of every chunk file, as << chunk, pixel >>
AllGroups == {cp \in Chunks \X Pixels : cp[2] \in DOMAIN chunk[cp[1]].pix}
Grp(cp) == chunk[cp[1]].pix[cp[2]]
\* the groups CubeFitter.fit has finished: nbest has been written
Finished(cp) == Grp(cp).nbest # NoAttr
\* log-evidence of order i of a group, order 0 being the null model
lnZ(g, i) == IF i = 0 THEN g.null_lnZ ELSE g.subs[i]
Min(a, b) == IF a < b THEN a ELSE b

\* C1: a finished pixel group with nbest = kk > 0 holds the sub-groups of the
\* orders 1..kk, and every step of its evidence chain, from the null evidence
\* up to order kk, gains at least lnZ_thresh.
C1_AcceptedChain ==
    \A cp \in AllGroups :
        (Finished(cp) /\ Grp(cp).nbest > 0) =>
            /\ Len(Grp(cp).subs) >= Grp(cp).nbest
            /\ \A i \in 1..Grp(cp).nbest :
                  /\ isfinite(lnZ(Grp(cp), i)) /\ lnZ(Grp(cp), i) # NoAttr
                  /\ lnZ(Grp(cp), i) - lnZ(Grp(cp), i - 1) >= lnZ_thresh

\* a finished group with nbest = 2 whose first step gains exactly lnZ_thresh
C1_Witness ==
    \E cp \in AllGroups :
        /\ Finished(cp)
        /\ Grp(cp).nbest = 2
        /\ lnZ(Grp(cp), 1) - lnZ(Grp(cp), 0) = lnZ_thresh

\* C2: a finished pixel group with nbest = kk < ncomp_max holds the sub-group
\* of order kk + 1, whose gain over order kk is below lnZ_thresh; no order
\* above kk + 1 is persisted, and the sampler ran once per persisted order.
C2_RejectedOrderKept ==
    \A cp \in AllGroups :
        Finished(cp) =>
            LET g == Grp(cp)
                kk == g.nbest
            IN  /\ Len(g.subs) = Min(kk + 1, ncomp_max)
                /\ ncalls[cp[2]] = Len(g.subs)
                /\ kk < ncomp_max =>
                      /\ Len(g.subs) = kk + 1
                      /\ lnZ(g, kk + 1) # NoAttr
                      /\ lnZ(g, kk + 1) - lnZ(g, kk) < lnZ_thresh

\* a finished group with nbest = 1 below ncomp_max = 2: order 2 is persisted
C2_Witness ==
    \E cp \in AllGroups :
        /\ Finished(cp)
        /\ Grp(cp).nbest = 1
        /\ ncomp_max = 2
        /\ Len(Grp(cp).subs) = 2

\* the nbest product at a pixel, once pass 1 has written it
MapAt(p) == dsets["nbest"][p[2] + 1][p[1] + 1]
Aggregated == agg_pc = "attrs"

\* C3: with ncomp_max >= 1, a pixel whose nbest is 0, as the attribute of its
\* group or as the entry of the aggregated map, has an order-1 fit whose gain
\* over the null evidence is below lnZ_thresh, or it was rejected as unfit.
C3_ZeroMeansRejectedFirst ==
    ncomp_max >= 1 =>
        /\ \A cp \in AllGroups :
              (Finished(cp) /\ Grp(cp).nbest = 0) =>
                  \/ /\ Len(Grp(cp).subs) >= 1
                     /\ lnZ(Grp(cp), 1) - lnZ(Grp(cp), 0) < lnZ_thresh
                  \/ has_nans(data[cp[2]])
        /\ Aggregated =>
              \A p \in Pixels :
                  MapAt(p) = 0 =>
                      \/ /\ p \in DOMAIN links
                         /\ Len(GroupOf(p).subs) >= 1
                         /\ lnZ(GroupOf(p), 1) - lnZ(GroupOf(p), 0) < lnZ_thresh
                      \/ has_nans(data[p])

\* the aggregated map holds a 0 for a pixel whose order-1 fit was rejected
C3_Witness ==
    /\ Aggregated
    /\ ncomp_max >= 1
    /\ \E p \in Pixels :
          /\ MapAt(p) = 0
          /\ Len(GroupOf(p).subs) = 1
          /\ lnZ(GroupOf(p), 1) = 5

\* C4 as stated: a pixel whose spectrum holds a NaN or an Inf sample gets no
\* sampler run and no group, and its entry of the aggregated map is -1.
C4_NonFiniteRejected ==
    \A p \in Pixels :
        data[p] # "finite" =>
            /\ ncalls[p] = 0
            /\ \A c \in Chunks : p \notin DOMAIN chunk[c].pix
            /\ Aggregated => MapAt(p) = Unfit

C4_NanState ==
    \A p \in Pixels :
        data[p] = "nan" =>
            /\ ncalls[p] = 0
            /\ \A c \in Chunks : p \notin DOMAIN chunk[c].pix
            /\ Aggregated => MapAt(p) = Unfit

C4_NanStep ==
    \A c \in Chunks :
        ( /\ wpc[c] = "loop"
          /\ wi[c] <= Len(indices[c + 1])
          /\ data[CurPix(c)] = "nan"
          /\ (wpc'[c] # wpc[c] \/ wi'[c] # wi[c]) )
        => /\ wpc'[c] = "loop"
           /\ wi'[c] = wi[c] + 1
           /\ chunk' = chunk
           /\ ncalls' = ncalls

\* C4 (amended): a pixel whose spectrum holds a NaN sample gets no sampler run
\* and no group, the worker's step at it only moves on to the next pixel of
\* its partition, and the pixel's entry of the aggregated map is -1.
C4_NanPixelSkipped == [](C4_NanState) /\ [][C4_NanStep]_vars

\* a worker skipped a NaN pixel, fitted the next pixel of its partition, and
\* the aggregated map holds -1 for the NaN pixel
C4_Witness ==
    /\ Aggregated
    /\ \E c \in Chunks :
          /\ Len(indices[c + 1]) >= 2
          /\ data[indices[c + 1][1]] = "nan"
          /\ MapAt(indices[c + 1][1]) = Unfit
          /\ indices[c + 1][2] \in DOMAIN chunk[c].pix
          /\ chunk[c].pix[indices[c + 1][2]].nbest # NoAttr

E2EMap == << << 2, 0 >>, << -1, 1 >> >>

\* C5: in the 2 x 2 scenario (ncomp_max = 2, lnZ_thresh = 11, chains
\* [0,15,40], [0,5], NaN, [0,20,25]) the finished groups carry nbest 2, 0
\* and 1, pixel C has no group, and the aggregated map is [[2,0],[-1,1]].
C5_EndToEnd ==
    /\ \A cp \in AllGroups :
          /\ cp[2] # PixC
          /\ Finished(cp) =>
                Grp(cp).nbest = (IF cp[2] = PixA THEN 2
                                 ELSE IF cp[2] = PixB THEN 0 ELSE 1)
    /\ Aggregated => dsets["nbest"] = E2EMap

\* the scenario ran in two worker processes and pass 1 wrote the map
C5_Witness ==
    /\ Aggregated
    /\ nchunks = 2
    /\ dsets["nbest"] = E2EMap
    /\ lnZ_thresh = 11 /\ ncomp_max = 2

\* C6: once get_multiproc_indices has built its nchunks index sets, every
\* pixel of the grid occurs in exactly one of them, exactly once, every
\* entry is a pixel of the grid, and set i holds the rows i, i+nchunks, ...
C6_Partition ==
    Len(indices) = nchunks =>
        /\ \A p \in Grid(shape) :
              Cardinality({cj \in (1..nchunks) \X (1..(shape[1] * shape[2])) :
                              /\ cj[2] \in DOMAIN indices[cj[1]]
                              /\ indices[cj[1]][cj[2]] = p}) = 1
        /\ \A c \in 1..nchunks : \A j \in DOMAIN indices[c] :
              /\ indices[c][j] \in Grid(shape)
              /\ indices[c][j][1] % nchunks = c - 1

\* a 4 x 2 grid split into 3 sets of 4, 2 and 2 pixels
C6_Witness ==
    /\ shape = << 4, 2 >>
    /\ nchunks = 3
    /\ Len(indices) = 3
    /\ Len(indices[1]) = 4 /\ Len(indices[2]) = 2 /\ Len(indices[3]) = 2

\* link_files has been entered
LinkBegun == main_pc \in {"link", "close", "done"} \/ DOMAIN links # {}

\* C7: once link_files has begun every worker has terminated (so none can
\* write to its chunk file any more), and when fit_cube has returned every
\* group of every chunk file is linked.
C7_LinkAfterJoin ==
    /\ LinkBegun => \A c \in Chunks : wpc[c] \in {"done", "crashed"}
    /\ main_pc = "done" => \A cp \in AllGroups :
          cp[2] \in DOMAIN links /\ links[cp[2]] = cp[1]

\* linking is under way after two worker processes were joined
C7_Witness ==
    /\ main_pc = "link"
    /\ k = 1
    /\ nchunks >= 2
    /\ \E p \in DOMAIN links : links[p] = 0

\* C8: after link_files has completed, with all chunk files in place,
\* iter_pix_groups ends normally and yields each pixel group of each chunk
\* exactly once and nothing else; the chunks hold disjoint pixel sets.
C8_IterIsUnion ==
    (main_pc \in {"close", "done"} /\ \A c \in Chunks : chunk[c].exists) =>
        LET it == iter_pix_groups IN
        /\ \A a \in AllGroups, b \in AllGroups : a[2] = b[2] => a[1] = b[1]
        /\ it.ok
        /\ \A i \in DOMAIN it.yield, j \in DOMAIN it.yield :
              it.yield[i] = it.yield[j] => i = j
        /\ SeqRange(it.yield) = {cp[2] : cp \in AllGroups}
        /\ \A p \in SeqRange(it.yield) : GroupOf(p) = chunk[links[p]].pix[p]

\* two chunk files were linked and the traversal yields a group of each
C8_Witness ==
    /\ main_pc = "done"
    /\ \A c \in Chunks : chunk[c].exists
    /\ \E p \in DOMAIN links, q \in DOMAIN links : links[p] # links[q]
    /\ Len(iter_pix_groups.yield) >= 2

Broken == \E p \in DOMAIN links : ~Resolves(p)

\* C9: when a link of the table file leads nowhere the traversal ends with
\* an error and pass 1 writes nothing; a map written by pass 1 holds the
\* nbest of every linked pixel, none was skipped.
C9_BrokenLinkAborts ==
    /\ Broken => ~iter_pix_groups.ok
    /\ (Broken /\ main_pc = "done") => agg_pc \in {"none", "failed"}
    /\ Aggregated => \A p \in DOMAIN links :
          /\ Resolves(p)
          /\ MapAt(p) = GroupOf(p).nbest
          /\ MapAt(p) # Unfit

\* pass 1 was aborted by a broken link although other links still resolve
C9_Witness ==
    /\ agg_pc = "failed"
    /\ Broken
    /\ \E p \in DOMAIN links : Resolves(p)

C10_Step ==
    call' # call =>
        LET existed == call'.name \in DOMAIN dsets IN
        /\ call'.old = (IF existed THEN dsets[call'.name] ELSE NoData)
        /\ IF existed /\ call'.clobber
           THEN /\ call'.outcome = "created"
                /\ call'.warned
                /\ dsets' = [dsets EXCEPT ![call'.name] = call'.data]
           ELSE IF existed
           THEN /\ call'.outcome = "error"
                /\ dsets' = dsets
           ELSE /\ call'.outcome = "created"
                /\ dsets' = dsets @@ (call'.name :> call'.data)

\* C10: create_dataset under an existing name replaces the dataset and warns
\* when clobber is True, fails and leaves the datasets unchanged when clobber
\* is False; under a new name it creates the dataset whatever the flag.
C10_CreateDatasetPolicy == [][C10_Step]_vars

\* an existing dataset was replaced by different data, with a warning
C10_Witness ==
    /\ call.outcome = "created"
    /\ call.clobber
    /\ call.warned
    /\ call.old # NoData
    /\ call.old # call.data
    /\ dsets[call.name] = call.data

(* ------------------- claims about convolve_evidence ------------------- *)
\* pass ps has returned in this run of the passes
PassDone(ps) == \E i \in DOMAIN plog : plog[i].pass = ps /\ plog[i].ok
\* the cells (b, l) of the maps, 1-based
MapCells == (1..shape[2]) \X (1..shape[1])
RawAt(bl) == dsets["nbest"][bl[1]][bl[2]]
ConvAt(bl) == dsets["conv_nbest"][bl[1]][bl[2]]
\* smoothed evidence of order m at a cell
SmoothAt(m, bl) == dsets["conv_evidence"][m + 1][bl[1]][bl[2]]
\* the smoothed gain of the step m -> m + 1 at a cell, when it is a number
HasGain(m, bl) == isfinite(SmoothAt(m + 1, bl)) /\ isfinite(SmoothAt(m, bl))
Gain(m, bl) == SmoothAt(m + 1, bl) - SmoothAt(m, bl)

\* C11: after convolve_evidence of main.py, at every pixel whose raw nbest is
\* not -1 the smoothed order is at most nbest + 1, for every smoothed evidence.
C11_ClampedByOne ==
    PassDone("conv") =>
        \A bl \in MapCells : RawAt(bl) # Unfit => ConvAt(bl) <= RawAt(bl) + 1

\* a pixel of raw order 0 whose smoothed steps 0->1 and 1->2 both pass the
\* threshold: the smoothed order is held at 1
C11_Witness ==
    /\ PassDone("conv")
    /\ ncomp_max = 2
    /\ \E bl \in MapCells :
          /\ RawAt(bl) = 0
          /\ HasGain(0, bl) /\ Gain(0, bl) > lnZ_thresh
          /\ HasGain(1, bl) /\ Gain(1, bl) > lnZ_thresh
          /\ ConvAt(bl) = 1

\* C13: after convolve_evidence of main.py, conv_nbest is -1 at exactly the
\* pixels where the raw nbest map is -1.
C13_UnfitKept ==
    PassDone("conv") =>
        \A bl \in MapCells : (ConvAt(bl) = Unfit) <=> (RawAt(bl) = Unfit)

\* an unfit pixel whose smoothed step 0->1 passes stays -1 next to a fitted
\* pixel whose smoothed order is 0
C13_Witness ==
    /\ PassDone("conv")
    /\ ncomp_max >= 1
    /\ \E bl \in MapCells, bl2 \in MapCells :
          /\ RawAt(bl) = Unfit
          /\ HasGain(0, bl) /\ Gain(0, bl) > lnZ_thresh
          /\ ConvAt(bl) = Unfit
          /\ RawAt(bl2) # Unfit
          /\ ConvAt(bl2) = 0

\* the order the walk from 0 upward reaches when a step is accepted exactly
\* when its smoothed gain is >= lnZ_thresh, as the test of CubeFitter.fit
RECURSIVE GeWalk(_, _)
GeWalk(bl, i) ==
    IF i >= ncomp_max THEN i
    ELSE IF HasGain(i, bl) /\ Gain(i, bl) >= lnZ_thresh THEN GeWalk(bl, i + 1)
    ELSE i

\* C14: after convolve_evidence of main.py the smoothed order of a fitted
\* pixel is the order reached by accepting a step exactly when its smoothed
\* gain is >= lnZ_thresh (the test of the fit loop), held at nbest + 1.
C14_SameThresholdTest ==
    PassDone("conv") =>
        \A bl \in MapCells :
            RawAt(bl) # Unfit =>
                ConvAt(bl) = Min(GeWalk(bl, 0), RawAt(bl) + 1)

\* C15: after convolve_evidence of main.py and of core.py, a pixel has the
\* smoothed order c > 0 only if every step 0->1, ..., c-1->c reached the
\* threshold.
C15_StepwiseBoth ==
    (PassDone("conv") \/ PassDone("core_conv")) =>
        \A bl \in MapCells :
            \A i \in 0..(ConvAt(bl) - 1) :
                HasGain(i, bl) /\ Gain(i, bl) >= lnZ_thresh

(* --------------------- claims about postprocess_run ------------------- *)
\* C12: in a run of postprocess_run every product dataset a pass looks up
\* was created by an earlier pass of the same run that returned, and by no
\* pass from the reading one on; a pass is followed by another only after it
\* returned with all its datasets in the store.
C12_PassesInOrder ==
    \A i \in DOMAIN plog :
        /\ \A n \in plog[i].reads :
              /\ \E j \in 1..(i - 1) : plog[j].ok /\ n \in plog[j].writes
              /\ \A j \in i..Len(plog) : n \notin plog[j].writes
        /\ i < Len(plog) =>
              /\ plog[i].ok
              /\ plog[i].writes # {}
              /\ plog[i].writes \subseteq DOMAIN dsets

\* all seven passes returned, the fourth having read the marginals of the
\* third to set its bins
C12_Witness ==
    /\ Len(plog) = 7
    /\ \A i \in DOMAIN plog : plog[i].ok
    /\ plog[2].pass = "conv" /\ plog[2].reads = {"evidence", "nbest"}
    /\ plog[4].pass = "pdfs" /\ "nbest_marginals" \in plog[4].reads

(* ------------------- claims about the fitting phase ------------------- *)
\* the fitting phase of fit_cube: from the first worker on to the last join
Fitting == main_pc \in {"inline", "start", "join"}
\* worker c takes the step
WorkerStep(c) ==
    \/ wpc'[c] # wpc[c]
    \/ wi'[c] # wi[c]
    \/ wncomp'[c] # wncomp[c]
\* worker c is in CubeFitter.fit
Running(c) == wpc[c] \in {"open", "loop", "while", "attrs"}

C16_State ==
    /\ \A cp \in AllGroups : cp[2] \in SeqRange(indices[cp[1] + 1])
    /\ \A a \in AllGroups, b \in AllGroups : a[2] = b[2] => a[1] = b[1]
    /\ (\E c \in Chunks : Running(c)) => (links = << >> /\ dsets = << >>)

C16_Step ==
    /\ \A f \in Chunks :
          (Fitting /\ chunk'[f] # chunk[f]) =>
              /\ WorkerStep(f)
              /\ \A c \in Chunks \ {f} : ~WorkerStep(c)
              /\ \A f2 \in Chunks \ {f} : chunk'[f2] = chunk[f2]
    /\ (\E c \in Chunks : WorkerStep(c)) => (links' = links /\ dsets' = dsets)
    /\ (links' # links \/ dsets' # dsets) =>
          /\ \A c \in Chunks : ~Running(c)
          /\ chunk' = chunk

\* C16: during the fitting phase a chunk file changes only in a step of the
\* one worker it was handed to, its groups are pixels of that worker's
\* partition, no pixel has a group in two chunk files, a worker's step leaves
\* the table file alone, and the table file changes only while no worker runs.
C16_OneWriterPerFile == [](C16_State) /\ [][C16_Step]_vars

\* two workers are in their fit loops at once, each with a group in its file
C16_Witness ==
    /\ main_pc = "join"
    /\ nchunks = 2
    /\ wpc[0] = "while" /\ wpc[1] = "while"
    /\ DOMAIN chunk[0].pix # {} /\ DOMAIN chunk[1].pix # {}

\* the pixels of worker c's partition after the one it is at
LaterPix(c) == {indices[c + 1][j] : j \in (wi[c] + 1)..Len(indices[c + 1])}
\* a group holds a non-finite evidence: a sampler result that is not finite,
\* or the empty sub-group the failed assertion on null_lnZ leaves behind
BadEvidence(g) ==
    \/ g.null_lnZ = NonFinite
    \/ \E n \in DOMAIN g.subs : g.subs[n] \in {NonFinite, NoAttr}

C17_State ==
    /\ \A c \in Chunks : wold[c] # NonFinite
    /\ \A cp \in AllGroups :
          BadEvidence(Grp(cp)) =>
              /\ Grp(cp).nbest = NoAttr
              /\ wpc[cp[1]] = "crashed"
              /\ CurPix(cp[1]) = cp[2]
              /\ Grp(cp).subs[Len(Grp(cp).subs)] \in {NonFinite, NoAttr}
              /\ \A n \in 1..(Len(Grp(cp).subs) - 1) :
                    Grp(cp).subs[n] \notin {NonFinite, NoAttr}
              /\ ncalls[cp[2]] <= Len(Grp(cp).subs)
    /\ \A c \in Chunks :
          (wpc[c] = "crashed" /\ chunk[c].exists) =>
              /\ BadEvidence(chunk[c].pix[CurPix(c)])
              /\ \A p \in LaterPix(c) :
                    p \notin DOMAIN chunk[c].pix /\ ncalls[p] = 0

C17_Step ==
    \A c \in Chunks :
        wpc[c] = "crashed" =>
            /\ wpc'[c] = "crashed"
            /\ wi'[c] = wi[c]
            /\ \A p \in SeqRange(indices[c + 1]) : ncalls'[p] = ncalls[p]
            /\ chunk'[c] \in {chunk[c], NoFile}

\* C17: a non-finite null evidence or sampler evidence ends the worker at
\* that pixel: old_lnZ never takes the value, the pixel's group gets no
\* nbest, no later pixel of the partition gets a group or a sampler run, and
\* the worker takes no further step (the sampler is not run again).
C17_NonFiniteAborts == [](C17_State) /\ [][C17_Step]_vars

\* a worker ended at a non-finite evidence of order 2, after order 1 was
\* accepted, with a pixel of its partition still ahead
C17_Witness ==
    \E c \in Chunks :
        /\ wpc[c] = "crashed"
        /\ chunk[c].exists
        /\ chunk[c].pix[CurPix(c)].subs[1] = 22
        /\ Len(chunk[c].pix[CurPix(c)].subs) = 2
        /\ chunk[c].pix[CurPix(c)].subs[2] = NonFinite
        /\ LaterPix(c) # {}

C18_State ==
    \A c \in Chunks :
        ( /\ nchunks >= 2
          /\ wpc[c] = "crashed"
          /\ main_pc \in {"close", "done"}
          /\ chunk[c].exists ) =>
            \A p \in DOMAIN chunk[c].pix : p \in DOMAIN links /\ links[p] = c

C18_Step ==
    nchunks >= 2 =>
        /\ (main_pc = "join" /\ k' # k) => wpc[k] \in {"done", "crashed"}
        /\ (main_pc = "join" /\ main_pc' # "join") =>
              /\ main_pc' = "link"
              /\ \A c \in Chunks : wpc[c] \in {"done", "crashed"}
        /\ (main_pc # "failed" /\ main_pc' = "failed") => main_pc = "link"

\* C18: with worker processes, a worker that died does not stop fit_cube: the
\* join loop waits for every worker, dead or not, and always goes on to
\* link_files; fit_cube fails only inside link_files, and when linking ends
\* the groups the dead worker wrote are linked like the others.
C18_DeadWorkerLinked == [](C18_State) /\ [][C18_Step]_vars

\* fit_cube returned although a worker died: the group it left without
\* nbest is linked, next to the groups of a worker that ran to its end
C18_Witness ==
    /\ main_pc = "done"
    /\ nchunks = 2
    /\ \E c \in Chunks, c2 \in Chunks :
          /\ wpc[c] = "crashed" /\ wpc[c2] = "done"
          /\ \E p \in DOMAIN links :
                links[p] = c /\ chunk[c].exists /\ GroupOf(p).nbest = NoAttr
          /\ \E p \in DOMAIN links : links[p] = c2

\* the start loop of fit_cube is behind the main process
StartsOver == main_pc \in {"inline", "join", "link", "close", "done"}

\* C19 as stated: for every nchunks >= 1 the fitting phase has started one
\* worker process per chunk, each exactly once.
C19_ExactlyNchunksProcs ==
    StartsOver => \A c \in Chunks : nstarted[c] = 1

\* C19 (amended): for nchunks >= 2 the start loop starts the process of
\* worker i on (indices[i], chunk_paths[i]) exactly once, in order, and while
\* a worker runs the main process is in its start or join loop; for
\* nchunks = 1 no process is ever started and the one partition is fitted in
\* the main process, inside fit_cube.
C19_ProcsPerChunk ==
    /\ nchunks >= 2 =>
          /\ StartsOver => \A c \in Chunks : nstarted[c] = 1
          /\ main_pc = "start" =>
                \A c \in Chunks : nstarted[c] = (IF c < k THEN 1 ELSE 0)
          /\ main_pc = "init" => \A c \in Chunks : nstarted[c] = 0
          /\ \A c \in Chunks :
                /\ wpc[c] # "idle" => nstarted[c] = 1
                /\ Running(c) => main_pc \in {"start", "join"}
          /\ main_pc # "inline"
    /\ nchunks = 1 =>
          /\ nstarted[0] = 0
          /\ Running(0) => main_pc = "inline"
          /\ main_pc \notin {"start", "join"}
    /\ indices # << >> => Len(indices) = nchunks

\* two worker processes, each started once, run while the main process joins
C19_Witness ==
    /\ nchunks = 2
    /\ main_pc = "join"
    /\ nstarted[0] = 1 /\ nstarted[1] = 1
    /\ Running(0) /\ Running(1)

(* ------------------ claims about the products of pass 1 --------------- *)
\* the evidence product at a pixel, model m
EvidenceAt(m, p) == dsets["evidence"][m + 1][p[2] + 1][p[1] + 1]
\* order m of a group is persisted: its sub-group exists, the null evidence
\* being kept with the sub-group of order 1
Persisted(g, m) == IF m = 0 THEN Len(g.subs) >= 1 ELSE m <= Len(g.subs)

\* C20: after pass 1 the nbest product at [i_lat, i_lon] is the nbest
\* attribute of the linked group of (i_lon, i_lat) and -1 where no group is
\* linked; the evidence product at [m, i_lat, i_lon] is the stored evidence
\* of order m where that order is persisted and NaN everywhere else; both
\* have the dimensions (n_lat, n_lon) and (ncomp_max + 1, n_lat, n_lon).
C20_PassOneProducts ==
    Aggregated =>
        /\ Len(dsets["nbest"]) = shape[2]
        /\ \A b \in 1..shape[2] : Len(dsets["nbest"][b]) = shape[1]
        /\ Len(dsets["evidence"]) = ncomp_max + 1
        /\ \A p \in Pixels :
              /\ MapAt(p) = (IF p \in DOMAIN links
                             THEN GroupOf(p).nbest ELSE Unfit)
              /\ \A m \in 0..ncomp_max :
                    EvidenceAt(m, p) =
                        (IF p \in DOMAIN links /\ Persisted(GroupOf(p), m)
                         THEN lnZ(GroupOf(p), m) ELSE NonFinite)

\* pass 1 ran on a store with a pixel of nbest 1 whose rejected order 2 is
\* in the evidence product, and a pixel without a group
C20_Witness ==
    /\ Aggregated
    /\ ncomp_max = 2
    /\ \E p \in Pixels :
          /\ MapAt(p) = 1
          /\ EvidenceAt(0, p) = 0 /\ EvidenceAt(1, p) = 22
          /\ EvidenceAt(2, p) = 22
    /\ \E p \in Pixels :
          /\ MapAt(p) = Unfit
          /\ p \notin DOMAIN links
          /\ EvidenceAt(0, p) = NonFinite


(* ---------------------------------- C21 -------------------------------- *)
\* the positions (model, lat, lon) of a product of dimensions (m, b, l)
Cells3(a) ==
    {<< m, b, l >> \in (DOMAIN a) \X (1..shape[2]) \X (1..shape[1]) : TRUE}

\* C21: after the histogram smoothing has stored conv_post_pdfs, every
\* position that is NaN in post_pdfs is NaN in conv_post_pdfs
C21_NanStaysNan ==
    agg_pc = "conv_pdfs" =>
        \A c \in Cells3(dsets["post_pdfs"]) :
            dsets["post_pdfs"][c[1]][c[2]][c[3]] = NonFinite =>
                dsets["conv_post_pdfs"][c[1]][c[2]][c[3]] = NonFinite

(* ---------------------------------- C22 -------------------------------- *)
\* the fit sub-groups of the chunk files, as << chunk, pixel, order >>
AllSubs ==
    {cpn \in Chunks \X Pixels \X (1..ncomp_max) :
        /\ cpn[2] \in DOMAIN chunk[cpn[1]].pix
        /\ cpn[3] \in DOMAIN chunk[cpn[1]].pix[cpn[2]].subs}

\* a worker is about to create_group an order its pixel group already holds
AtStoredOrder(c) ==
    /\ wpc[c] = "while"
    /\ wncomp[c] <= ncomp_max
    /\ Len(chunk[chunk_paths(c)].pix[CurPix(c)].subs) >= wncomp[c]

\* C22: a fit sub-group, once created in a chunk file, keeps its content in
\* every later step; a sweep that reaches an order its pixel group already
\* holds raises at create_group and leaves the chunk files as they were; and
\* a step of link_files or of an aggregation pass leaves the chunk files as
\* they were
C22_Step ==
    /\ \A cpn \in AllSubs :
          /\ cpn[2] \in DOMAIN chunk'[cpn[1]].pix
          /\ cpn[3] \in DOMAIN chunk'[cpn[1]].pix[cpn[2]].subs
          /\ chunk'[cpn[1]].pix[cpn[2]].subs[cpn[3]] =
                chunk[cpn[1]].pix[cpn[2]].subs[cpn[3]]
    /\ \A c \in Chunks :
          (AtStoredOrder(c) /\ WorkerStep(c)) =>
              (wpc'[c] = "crashed" /\ chunk' = chunk)
    /\ (links' # links \/ dsets' # dsets \/ agg_pc' # agg_pc) =>
          chunk' = chunk
C22_WriteOnce == [][C22_Step]_vars

\* a second sweep has stopped at a sub-group of the first, which is intact,
\* and the store of the first sweep was linked
C22_Witness ==
    \E c \in Chunks :
        /\ wpc[c] = "crashed"
        /\ wi[c] >= 1 /\ wi[c] <= Len(indices[c + 1])
        /\ LET g == chunk[chunk_paths(c)].pix IN
           /\ CurPix(c) \in DOMAIN g
           /\ g[CurPix(c)].nbest # NoAttr
           /\ Len(g[CurPix(c)].subs) >= 1
           /\ isfinite(g[CurPix(c)].subs[1])
        /\ DOMAIN links # {}

(* ---------------------------------- C23 -------------------------------- *)
\* the value a product of dimensions (m, b, l) holds for pixel p in
\* component slot m (1-based)
SlotAt(name, p, m) == dsets[name][m][p[2] + 1][p[1] + 1]
\* the smoothed order of pixel p
ConvOf(p) == dsets["conv_nbest"][p[2] + 1][p[1] + 1]

FitCubeEnded ==
    /\ main_pc \in {"done", "failed"}
    /\ \A c \in Chunks : ~Running(c)

\* C24: with the sampler results fixed, when fit_cube has ended the linked
\* groups are the ones a single-process run links, the pixels without NaN,
\* and each holds the orders and the nbest that run leaves for it
C24_SameAsSingleProcess ==
    FitCubeEnded =>
        /\ DOMAIN links = {p \in Pixels : ~has_nans(data[p])}
        /\ \A p \in DOMAIN links : Resolves(p) /\ GroupOf(p) = fit_pixel(p)

(* ---------------------------------- C25 -------------------------------- *)
\* C25: once get_multiproc_indices has built its nchunks index sets, the
\* sizes of any two of them differ by at most the pixels of one row of the
\* strided axis, n_lat
C25_NearEqualSizes ==
    Len(indices) = nchunks =>
        \A a \in 1..nchunks : \A b \in 1..nchunks :
            Len(indices[a]) - Len(indices[b]) <= shape[2]

\* three or more sets over rows of two pixels, two of them one row apart
C25_Witness ==
    /\ Len(indices) = nchunks
    /\ nchunks >= 3
    /\ shape[2] >= 2
    /\ \E a \in 1..nchunks : \E b \in 1..nchunks :
          /\ Len(indices[b]) > 0
          /\ Len(indices[a]) - Len(indices[b]) = shape[2]

(* ---------------------------------- C26 -------------------------------- *)
\* the sampler has run at most ncomp_max times for a pixel and never for a
\* pixel with NaN values; for a finished pixel it has run min(nbest + 1,
\* ncomp_max) times
C26_State ==
    /\ \A p \in Pixels :
          /\ ncalls[p] <= ncomp_max
          /\ has_nans(data[p]) => ncalls[p] = 0
    /\ \A cp \in AllGroups :
          Finished(cp) => ncalls[cp[2]] = Min(Grp(cp).nbest + 1, ncomp_max)

\* a sampler invocation is the one of the next order of a pixel whose loop
\* is running, and the order before it was accepted
C26_Step ==
    \A p \in Pixels :
        \/ ncalls'[p] = ncalls[p]
        \/ /\ ncalls'[p] = ncalls[p] + 1
           /\ \E c \in Chunks :
                 /\ wpc[c] = "while"
                 /\ CurPix(c) = p
                 /\ wncomp[c] = ncalls'[p]
                 /\ LET g == chunk[chunk_paths(c)].pix[p]
                        g2 == chunk'[chunk_paths(c)].pix[p]
                    IN  /\ g.nbest = NoAttr
                        /\ Len(g.subs) = ncalls[p]
                        /\ Len(g2.subs) = ncalls'[p]
                        /\ \A i \in 1..ncalls[p] :
                              ~(lnZ(g2, i) - lnZ(g2, i - 1) < lnZ_thresh)

\* C26: the loop of a pixel ends, after min(nbest + 1, ncomp_max) sampler
\* invocations; the orders are invoked as 1, 2, ... without a gap or a
\* repeat, and none after an order that was rejected
C26_BoundedInvocations ==
    /\ [](C26_State)
    /\ [][C26_Step]_vars
    /\ \A c \in 0..(MaxChunks - 1) :
          (c \in Chunks /\ wpc[c] = "while") ~>
              (c \in Chunks /\ wpc[c] # "while")

\* a pixel finished with an accepted order and a rejected one after it, in
\* a run whose ncomp_max is larger than the number of invocations
C26_Witness ==
    \E cp \in AllGroups :
        /\ Finished(cp)
        /\ Grp(cp).nbest = 1
        /\ ncalls[cp[2]] = 2
        /\ ncomp_max > 1

(* ---------------------------------- C27 -------------------------------- *)
\* C27: the nbest attribute of a finished pixel group lies in 0..ncomp_max,
\* and every entry of the aggregated map nbest and of the smoothed map
\* conv_nbest lies in -1..ncomp_max
C27_OrdersInRange ==
    /\ \A cp \in AllGroups :
          Finished(cp) => Grp(cp).nbest \in 0..ncomp_max
    /\ "nbest" \in DOMAIN dsets =>
          \A bl \in MapCells : RawAt(bl) \in Unfit..ncomp_max
    /\ "conv_nbest" \in DOMAIN dsets =>
          \A bl \in MapCells : ConvAt(bl) \in Unfit..ncomp_max

\* the attribute, the map and the smoothed map at the upper end of the range
C27_Witness ==
    /\ ncomp_max >= 1
    /\ "conv_nbest" \in DOMAIN dsets
    /\ \E p \in DOMAIN links :
          /\ Resolves(p)
          /\ GroupOf(p).nbest = ncomp_max
          /\ MapAt(p) = ncomp_max
          /\ ConvOf(p) = ncomp_max

(* ---------------------------------- C28 -------------------------------- *)
\* the passes 1 and 2 have returned on a store all of whose workers ran to
\* completion, and neither pass 3 nor pass 4 has raised
AfterSmoothing ==
    /\ agg_pc \in {"conv", "products", "pdfs"}
    /\ \A c \in Chunks : wpc[c] = "done"

\* C28: after the passes 1 and 2 on a store whose workers all ran to
\* completion, every group the traversal yields has a smoothed order c >= 0,
\* and for c > 0 its sub-group of order c exists and holds a fit
C28_SmoothedOrderWasFitted ==
    AfterSmoothing =>
        /\ iter_pix_groups.ok
        /\ \A p \in SeqRange(iter_pix_groups.yield) :
              /\ ConvOf(p) >= 0
              /\ ConvOf(p) > 0 =>
                    /\ ConvOf(p) \in DOMAIN GroupOf(p).subs
                    /\ GroupOf(p).subs[ConvOf(p)] # NoAttr

\* a pixel whose order 1 was rejected and whose smoothed order is 1, with
\* room for an order 2 that was never fitted
C28_Witness ==
    /\ AfterSmoothing
    /\ ncomp_max = 2
    /\ \E p \in SeqRange(iter_pix_groups.yield) :
          /\ GroupOf(p).nbest = 0
          /\ Len(GroupOf(p).subs) = 1
          /\ ConvOf(p) = 1

(* ---------------------------------- C29 -------------------------------- *)
\* worker c stopped, or stands, inside the fit of a pixel that has a group
MidFit(c) ==
    /\ wpc[c] \in {"while", "attrs", "crashed"}
    /\ wi[c] \in DOMAIN indices[c + 1]
    /\ CurPix(c) \in DOMAIN chunk[chunk_paths(c)].pix

\* C29: in every state of a sweep, a worker killed or crashed at any point
\* included, a pixel group that carries nbest holds the results of all the
\* orders 1..min(nbest + 1, ncomp_max), and the group of a pixel whose fit is
\* under way or was interrupted carries no nbest
C29_NbestWrittenLast ==
    /\ \A cp \in AllGroups :
          Finished(cp) =>
              /\ Len(Grp(cp).subs) = Min(Grp(cp).nbest + 1, ncomp_max)
              /\ \A n \in DOMAIN Grp(cp).subs :
                    Grp(cp).subs[n] # NoAttr /\ isfinite(Grp(cp).subs[n])
    /\ \A c \in Chunks :
          MidFit(c) => chunk[chunk_paths(c)].pix[CurPix(c)].nbest = NoAttr

\* a worker was killed after it had persisted order 1 of a pixel and before
\* the attributes were written, next to a pixel it had finished
C29_Witness ==
    \E c \in Chunks :
        /\ wpc[c] = "crashed"
        /\ MidFit(c)
        /\ LET g == chunk[chunk_paths(c)].pix[CurPix(c)] IN
           /\ Len(g.subs) >= 1
           /\ \A n \in DOMAIN g.subs : isfinite(g.subs[n]) /\ g.subs[n] # NoAttr
        /\ \E cp \in AllGroups : Finished(cp)

(* ---------------------------------- C30 -------------------------------- *)
\* the chunk files that were written and closed without a pixel group
EmptyChunks ==
    {c \in Chunks : /\ wpc[c] \in {"done", "crashed"}
                     /\ chunk[c].exists
                     /\ DOMAIN chunk[c].pix = {}}
\* every worker has ended and the main process is at link_files or past it
Joined ==
    /\ main_pc \in {"link", "close", "done", "failed"}
    /\ \A c \in Chunks : wpc[c] \in {"done", "crashed"}

\* C30: when a chunk file holds no pixel group, link_files gets no further
\* than the first such chunk e and fit_cube never returns; when link_files
\* has raised there, the table holds the links of all groups of the chunks
\* before e and no link into e or a chunk after it
C30_EmptyChunkAbortsLinking ==
    (Joined /\ EmptyChunks # {}) =>
        LET e == CHOOSE c \in EmptyChunks : \A c2 \in EmptyChunks : c <= c2 IN
        /\ main_pc \in {"link", "failed"}
        /\ k <= e
        /\ \A p \in DOMAIN links : links[p] < e
        /\ main_pc = "failed" =>
              /\ k = e
              /\ \A cp \in AllGroups :
                    cp[1] < e => (cp[2] \in DOMAIN links /\ links[cp[2]] = cp[1])

\* more processes than rows: the last chunk file is empty, link_files has
\* linked the chunk before it and raised
C30_Witness ==
    /\ nchunks > shape[1]
    /\ Joined
    /\ main_pc = "failed"
    /\ k = nchunks - 1
    /\ k \in EmptyChunks
    /\ DOMAIN links # {}

================================================================
